---- MODULE Spec2Model ----
(***************************************************************************)
(* Model of torch/jit/frontend.py: the translation of a Python syntax tree *)
(* (ast) into the JIT tree views.  A translation is a pure function of the *)
(* source text and the syntax tree, so the state machine draws a source    *)
(* unit in Init and each action applies one entry point of the frontend    *)
(* (get_jit_def, build_stmt, build_expr) to a node of that unit.           *)
(*                                                                         *)
(* Texts whose characters matter (the source, an identifier, the spelling  *)
(* of a literal) are sequences of one-character strings.                   *)
(***************************************************************************)
EXTENDS Integers, Sequences, FiniteSets, TLC

VARIABLES unit, pc, call, arg, result

vars == <<unit, pc, call, arg, result>>

(***************************************************************************)
(* Bounds of the input space.                                              *)
(***************************************************************************)
MaxBoolValues == 3
MaxCmpOps == 2
MaxPieces == 2
MaxIndices == 3

(***************************************************************************)
(* Text helpers.                                                           *)
(***************************************************************************)
RECURSIVE Flatten(_)
Flatten(ss) == IF ss = <<>> THEN <<>> ELSE Head(ss) \o Flatten(Tail(ss))

RECURSIVE Join(_, _)
Join(ss, sep) ==
  IF ss = <<>> THEN <<>>
  ELSE IF Len(ss) = 1 THEN ss[1]
  ELSE ss[1] \o sep \o Join(Tail(ss), sep)

StartsWith(s, p) == Len(s) >= Len(p) /\ SubSeq(s, 1, Len(p)) = p

Digits == <<"0", "1", "2", "3", "4", "5", "6", "7", "8", "9",
            "a", "b", "c", "d", "e", "f">>

DigitVal(c) == (CHOOSE i \in 1..16 : Digits[i] = c) - 1

IsDigit(c, base) == \E i \in 1..base : Digits[i] = c

RECURSIVE Pow10(_)
Pow10(n) == IF n = 0 THEN 1 ELSE 10 * Pow10(n - 1)

(* int(text, base) for a run of digits *)
RECURSIVE DigitsVal(_, _)
DigitsVal(s, base) ==
  IF s = <<>> THEN 0
  ELSE DigitsVal(SubSeq(s, 1, Len(s) - 1), base) * base + DigitVal(s[Len(s)])

(* the decimal digits of a natural number: str(n) for an int *)
RECURSIVE NatStr(_)
NatStr(n) == IF n < 10 THEN <<Digits[n + 1]>>
             ELSE NatStr(n \div 10) \o <<Digits[(n % 10) + 1]>>

Without(s, c) == SelectSeq(s, LAMBDA ch : ch # c)

IndexOf(s, c) == IF \E i \in 1..Len(s) : s[i] = c
                 THEN CHOOSE i \in 1..Len(s) : s[i] = c /\ \A j \in 1..(i - 1) : s[j] # c
                 ELSE 0

(***************************************************************************)
(* The Python parser on a numeric literal and str() on its value.          *)
(* A value is [t |-> "int", v |-> n] or [t |-> "float", m |-> m, e |-> e], *)
(* the float m * 10^e with m not divisible by 10 unless it is 0.           *)
(***************************************************************************)
RECURSIVE NormFloat(_, _)
NormFloat(m, e) ==
  IF m = 0 THEN [t |-> "float", m |-> 0, e |-> 0]
  ELSE IF m % 10 = 0 THEN NormFloat(m \div 10, e + 1)
  ELSE [t |-> "float", m |-> m, e |-> e]

(* ast.parse: the value of the numeric literal spelled sp *)
NumValue(sp) ==
  LET s == Without(sp, "_") IN
  IF StartsWith(s, <<"0", "x">>)
  THEN [t |-> "int", v |-> DigitsVal(SubSeq(s, 3, Len(s)), 16)]
  ELSE IF IndexOf(s, "e") = 0 /\ IndexOf(s, ".") = 0
  THEN [t |-> "int", v |-> DigitsVal(s, 10)]
  ELSE LET ePos == IndexOf(s, "e")
           mant == IF ePos = 0 THEN s ELSE SubSeq(s, 1, ePos - 1)
           exp  == IF ePos = 0 THEN 0 ELSE DigitsVal(SubSeq(s, ePos + 1, Len(s)), 10)
           dot  == IndexOf(mant, ".")
           ip   == IF dot = 0 THEN mant ELSE SubSeq(mant, 1, dot - 1)
           fp   == IF dot = 0 THEN <<>> ELSE SubSeq(mant, dot + 1, Len(mant))
       IN NormFloat(DigitsVal(ip \o fp, 10), exp - Len(fp))

ConstText(v) ==
  CASE v = "True"  -> <<"T", "r", "u", "e">>
    [] v = "False" -> <<"F", "a", "l", "s", "e">>
    [] v = "None"  -> <<"N", "o", "n", "e">>

(* str(value): repr of an int, of a float in the fixed-notation range, the *)
(* text of a str, and the name of True, False and None                     *)
PyStr(val) ==
  CASE val.t = "int" -> NatStr(val.v)
    [] val.t = "float" ->
         IF val.e >= 0 THEN NatStr(val.m) \o [i \in 1..val.e |-> "0"] \o <<".", "0">>
         ELSE LET k    == 0 - val.e
                  ip   == val.m \div Pow10(k)
                  fr   == NatStr(val.m % Pow10(k))
                  pad  == [i \in 1..(k - Len(fr)) |-> "0"]
              IN NatStr(ip) \o <<".">> \o pad \o fr
    [] val.t = "str" -> val.s
    [] val.t \in {"bool", "NoneType"} -> ConstText(val.v)

(***************************************************************************)
(* Python syntax, as written.  A syntax node is a record with a kind (the  *)
(* name of its ast class) and that class's fields; NoneNode is Python's    *)
(* None where a field is optional.                                         *)
(***************************************************************************)
NoneNode == [kind |-> "NoneType"]

IsNone(x) == x.kind = "NoneType"

Name(id) == [kind |-> "Name", id |-> id]
Num(text) == [kind |-> "Num", text |-> text]
Str(s) == [kind |-> "Str", s |-> s]
NameConstant(v) ==
  [kind |-> "NameConstant",
   value |-> [t |-> IF v = "None" THEN "NoneType" ELSE "bool", v |-> v]]
UnaryOp_(op, operand) == [kind |-> "UnaryOp", op |-> op, operand |-> operand]
BinOp_(left, op, right) == [kind |-> "BinOp", left |-> left, op |-> op, right |-> right]
BoolOp_(op, values) == [kind |-> "BoolOp", op |-> op, values |-> values]
Compare_(left, ops, comparators) ==
  [kind |-> "Compare", left |-> left, ops |-> ops, comparators |-> comparators]
IfExp_(test, body, orelse) ==
  [kind |-> "IfExp", test |-> test, body |-> body, orelse |-> orelse]
FormattedValue_(value, conversion, format_spec) ==
  [kind |-> "FormattedValue", value |-> value, conversion |-> conversion,
   format_spec |-> format_spec]
JoinedStr_(values) == [kind |-> "JoinedStr", values |-> values]
List_(elts) == [kind |-> "List", elts |-> elts]
comprehension_(target, iter, ifs) ==
  [kind |-> "comprehension", target |-> target, iter |-> iter, ifs |-> ifs]
ListComp_(elt, generators) == [kind |-> "ListComp", elt |-> elt, generators |-> generators]
Tuple_(elts) == [kind |-> "Tuple", elts |-> elts]
Index_(value) == [kind |-> "Index", value |-> value]
Slice_(lower, upper, step) ==
  [kind |-> "Slice", lower |-> lower, upper |-> upper, step |-> step]
ExtSlice_(dims) == [kind |-> "ExtSlice", dims |-> dims]
Subscript_(value, slice) == [kind |-> "Subscript", value |-> value, slice |-> slice]
Call_(func, args) == [kind |-> "Call", func |-> func, args |-> args, keywords |-> <<>>]
Lambda_(body) == [kind |-> "Lambda", body |-> body]

Expr_(value) == [kind |-> "Expr", value |-> value]
Return_(value) == [kind |-> "Return", value |-> value]
Raise_(exc) == [kind |-> "Raise", exc |-> exc]
Pass_ == [kind |-> "Pass"]
Global_(name) == [kind |-> "Global", names |-> <<name>>]
AugAssign_(target, op, value) ==
  [kind |-> "AugAssign", target |-> target, op |-> op, value |-> value]
Assign_(targets, value) == [kind |-> "Assign", targets |-> targets, value |-> value]
AnnAssign_(target, annotation, value) ==
  [kind |-> "AnnAssign", target |-> target, annotation |-> annotation, value |-> value]
If_(test, body, orelse) ==
  [kind |-> "If", test |-> test, body |-> body, orelse |-> orelse]
For_(target, iter, body) ==
  [kind |-> "For", target |-> target, iter |-> iter, body |-> body]
withitem_(context_expr, optional_vars) ==
  [kind |-> "withitem", context_expr |-> context_expr, optional_vars |-> optional_vars]
With_(items, body) == [kind |-> "With", items |-> items, body |-> body]
While_(test, body, orelse) ==
  [kind |-> "While", test |-> test, body |-> body, orelse |-> orelse]

arg_(name, annotation) == [kind |-> "arg", arg |-> name, annotation |-> annotation]
arguments_(args, vararg, kwonlyargs, kw_defaults, kwarg) ==
  [kind |-> "arguments", args |-> args, vararg |-> vararg, kwonlyargs |-> kwonlyargs,
   kw_defaults |-> kw_defaults, kwarg |-> kwarg]
FunctionDef_(name, args, returns, body) ==
  [kind |-> "FunctionDef", name |-> name, args |-> args, returns |-> returns,
   body |-> body, decorator_list |-> <<>>]

(***************************************************************************)
(* The tokens of the operators.                                            *)
(***************************************************************************)
UnaryText(op) ==
  CASE op = "Not"    -> <<"n", "o", "t", " ">>
    [] op = "USub"   -> <<"-">>
    [] op = "Invert" -> <<"~">>
    [] op = "UAdd"   -> <<"+">>

BinText(op) ==
  CASE op = "Add"      -> <<"+">>
    [] op = "Sub"      -> <<"-">>
    [] op = "Mult"     -> <<"*">>
    [] op = "Div"      -> <<"/">>
    [] op = "Mod"      -> <<"%">>
    [] op = "Pow"      -> <<"*", "*">>
    [] op = "FloorDiv" -> <<"/", "/">>
    [] op = "BitAnd"   -> <<"&">>
    [] op = "BitXor"   -> <<"^">>
    [] op = "BitOr"    -> <<"|">>
    [] op = "LShift"   -> <<"<", "<">>
    [] op = "RShift"   -> <<">", ">">>
    [] op = "MatMult"  -> <<"@">>

BoolText(op) ==
  CASE op = "And" -> <<" ", "a", "n", "d", " ">>
    [] op = "Or"  -> <<" ", "o", "r", " ">>

CmpText(op) ==
  CASE op = "Eq"    -> <<" ", "=", "=", " ">>
    [] op = "NotEq" -> <<" ", "!", "=", " ">>
    [] op = "Lt"    -> <<"<">>
    [] op = "LtE"   -> <<"<", "=">>
    [] op = "Gt"    -> <<">">>
    [] op = "GtE"   -> <<">", "=">>
    [] op = "Is"    -> <<" ", "i", "s", " ">>
    [] op = "IsNot" -> <<" ", "i", "s", " ", "n", "o", "t", " ">>
    [] op = "In"    -> <<" ", "i", "n", " ">>
    [] op = "NotIn" -> <<" ", "n", "o", "t", " ", "i", "n", " ">>

(* a literal segment of a formatted string as written: a brace is doubled *)
RECURSIVE Escaped(_)
Escaped(s) ==
  IF s = <<>> THEN <<>>
  ELSE (IF Head(s) \in {"{", "}"} THEN <<Head(s), Head(s)>> ELSE <<Head(s)>>)
       \o Escaped(Tail(s))

Compound(e) == e.kind \in {"UnaryOp", "BinOp", "BoolOp", "Compare", "IfExp", "Lambda"}

(***************************************************************************)
(* The text of an expression.  An operand that is itself an operator       *)
(* expression is written in parentheses.                                   *)
(***************************************************************************)
RECURSIVE Text(_)
RECURSIVE SliceText(_)
Operand(e) == IF Compound(e) THEN <<"(">> \o Text(e) \o <<")">> ELSE Text(e)

PieceText(p) ==
  IF p.kind = "Str" THEN Escaped(p.s)
  ELSE <<"{">> \o Text(p.value)
       \o (IF p.conversion = -1 THEN <<>> ELSE <<"!", "r">>)
       \o (IF IsNone(p.format_spec) THEN <<>> ELSE <<":">> \o p.format_spec.values[1].s)
       \o <<"}">>

GenText(g) ==
  <<" ", "f", "o", "r", " ">> \o Text(g.target) \o <<" ", "i", "n", " ">> \o Operand(g.iter)
  \o Flatten([i \in 1..Len(g.ifs) |-> <<" ", "i", "f", " ">> \o Operand(g.ifs[i])])

(* an index, a slice "lower:upper:step" or dimensions "d, d" in brackets *)
SliceText(sl) ==
  CASE sl.kind = "Index" -> Text(sl.value)
    [] sl.kind = "Slice" ->
         (IF IsNone(sl.lower) THEN <<>> ELSE Text(sl.lower)) \o <<":">>
         \o (IF IsNone(sl.upper) THEN <<>> ELSE Text(sl.upper))
         \o (IF IsNone(sl.step) THEN <<>> ELSE <<":">> \o Text(sl.step))
    [] sl.kind = "ExtSlice" ->
         Join([i \in 1..Len(sl.dims) |-> SliceText(sl.dims[i])], <<",", " ">>)

Text(e) ==
  CASE e.kind = "Name"         -> e.id
    [] e.kind = "Num"          -> e.text
    [] e.kind = "Str"          -> <<"'">> \o e.s \o <<"'">>
    [] e.kind = "NameConstant" -> ConstText(e.value.v)
    [] e.kind = "UnaryOp"      -> UnaryText(e.op) \o Operand(e.operand)
    [] e.kind = "BinOp"        ->
         Operand(e.left) \o <<" ">> \o BinText(e.op) \o <<" ">> \o Operand(e.right)
    [] e.kind = "BoolOp"       ->
         Join([i \in 1..Len(e.values) |-> Operand(e.values[i])], BoolText(e.op))
    [] e.kind = "Compare"      ->
         Operand(e.left)
         \o Flatten([i \in 1..Len(e.ops) |-> CmpText(e.ops[i]) \o Operand(e.comparators[i])])
    [] e.kind = "IfExp"        ->
         Operand(e.body) \o <<" ", "i", "f", " ">> \o Operand(e.test)
         \o <<" ", "e", "l", "s", "e", " ">> \o Operand(e.orelse)
    [] e.kind = "JoinedStr"    ->
         <<"f", "'">> \o Flatten([i \in 1..Len(e.values) |-> PieceText(e.values[i])])
         \o <<"'">>
    [] e.kind = "List"         ->
         <<"[">> \o Join([i \in 1..Len(e.elts) |-> Text(e.elts[i])], <<",", " ">>) \o <<"]">>
    [] e.kind = "Tuple"        ->
         <<"(">> \o Join([i \in 1..Len(e.elts) |-> Text(e.elts[i])], <<",", " ">>)
         \o (IF Len(e.elts) = 1 THEN <<",">> ELSE <<>>) \o <<")">>
    [] e.kind = "Subscript"    ->
         Operand(e.value) \o <<"[">> \o SliceText(e.slice) \o <<"]">>
    [] e.kind = "ListComp"     ->
         <<"[">> \o Text(e.elt)
         \o Flatten([i \in 1..Len(e.generators) |-> GenText(e.generators[i])]) \o <<"]">>
    [] e.kind = "Call"         ->
         Operand(e.func) \o <<"(">>
         \o Join([i \in 1..Len(e.args) |-> Text(e.args[i])], <<",", " ">>) \o <<")">>
    [] e.kind = "Lambda"       -> <<"l", "a", "m", "b", "d", "a", ":", " ">> \o Text(e.body)

(***************************************************************************)
(* ast.parse: the syntax tree with the location of every node.  py38 says  *)
(* whether the parser is Python 3.8's, which gives every literal the class *)
(* Constant, or an older one (Num, Str, NameConstant).  A node in          *)
(* parentheses has the location of what the parentheses hold.              *)
(***************************************************************************)
RECURSIVE SumLens(_, _)
SumLens(ts, n) == IF n = 0 THEN 0 ELSE Len(ts[n]) + SumLens(ts, n - 1)

StartOf(ts, sepLen, col, i) == col + SumLens(ts, i - 1) + (i - 1) * sepLen

Inner(e, col) == IF Compound(e) THEN col + 1 ELSE col

ConstValue(e) ==
  CASE e.kind = "Num" -> NumValue(e.text)
    [] e.kind = "Str" -> [t |-> "str", s |-> e.s]
    [] e.kind = "NameConstant" -> e.value

RECURSIVE Place(_, _, _, _)
RECURSIVE PlaceSlice(_, _, _, _)
PlacePiece(p, ln, col, at, py38) ==
  IF p.kind = "Str"
  THEN IF py38
       THEN [kind |-> "Constant", value |-> ConstValue(p), lineno |-> ln, col_offset |-> col]
       ELSE [kind |-> "Str", s |-> p.s, lineno |-> ln, col_offset |-> col]
  ELSE [kind |-> "FormattedValue", value |-> Place(p.value, ln, at + 1, py38),
        conversion |-> p.conversion, format_spec |-> p.format_spec,
        lineno |-> ln, col_offset |-> col]

PlaceGen(g, ln, col, py38) ==
  LET tcol == col + 5
      icol == tcol + Len(Text(g.target)) + 4
  IN [kind |-> "comprehension",
      target |-> Place(g.target, ln, tcol, py38),
      iter |-> Place(g.iter, ln, Inner(g.iter, icol), py38),
      ifs |-> [i \in 1..Len(g.ifs) |->
                 Place(g.ifs[i], ln,
                       Inner(g.ifs[i],
                             StartOf([j \in 1..Len(g.ifs) |-> Operand(g.ifs[j])], 4,
                                     icol + Len(Operand(g.iter)) + 4, i)),
                       py38)]]

(* an Index, a Slice and an ExtSlice have no location of their own *)
PlaceSlice(sl, ln, col, py38) ==
  CASE sl.kind = "Index" -> [kind |-> "Index", value |-> Place(sl.value, ln, col, py38)]
    [] sl.kind = "Slice" ->
         LET ucol == col + (IF IsNone(sl.lower) THEN 0 ELSE Len(Text(sl.lower))) + 1
             scol == ucol + (IF IsNone(sl.upper) THEN 0 ELSE Len(Text(sl.upper))) + 1
         IN [kind |-> "Slice",
             lower |-> Place(sl.lower, ln, col, py38),
             upper |-> Place(sl.upper, ln, ucol, py38),
             step |-> Place(sl.step, ln, scol, py38)]
    [] sl.kind = "ExtSlice" ->
         LET ts == [i \in 1..Len(sl.dims) |-> SliceText(sl.dims[i])]
         IN [kind |-> "ExtSlice",
             dims |-> [i \in 1..Len(sl.dims) |->
                         PlaceSlice(sl.dims[i], ln, StartOf(ts, 2, col, i), py38)]]

Place(e, ln, col, py38) ==
  CASE e.kind = "NoneType" -> e
    [] e.kind = "Name" -> [kind |-> "Name", id |-> e.id, lineno |-> ln, col_offset |-> col]
    [] e.kind \in {"Num", "Str", "NameConstant"} ->
         IF py38
         THEN [kind |-> "Constant", value |-> ConstValue(e), lineno |-> ln, col_offset |-> col]
         ELSE IF e.kind = "Num"
         THEN [kind |-> "Num", n |-> ConstValue(e), lineno |-> ln, col_offset |-> col]
         ELSE IF e.kind = "Str"
         THEN [kind |-> "Str", s |-> e.s, lineno |-> ln, col_offset |-> col]
         ELSE [kind |-> "NameConstant", value |-> ConstValue(e),
               lineno |-> ln, col_offset |-> col]
    [] e.kind = "UnaryOp" ->
         [kind |-> "UnaryOp", op |-> e.op,
          operand |-> Place(e.operand, ln, Inner(e.operand, col + Len(UnaryText(e.op))), py38),
          lineno |-> ln, col_offset |-> col]
    [] e.kind = "BinOp" ->
         [kind |-> "BinOp", op |-> e.op,
          left |-> Place(e.left, ln, Inner(e.left, col), py38),
          right |-> Place(e.right, ln,
                          Inner(e.right, col + Len(Operand(e.left)) + Len(BinText(e.op)) + 2),
                          py38),
          lineno |-> ln, col_offset |-> col]
    [] e.kind = "BoolOp" ->
         LET ts == [i \in 1..Len(e.values) |-> Operand(e.values[i])]
         IN [kind |-> "BoolOp", op |-> e.op,
             values |-> [i \in 1..Len(e.values) |->
                           Place(e.values[i], ln,
                                 Inner(e.values[i],
                                       StartOf(ts, Len(BoolText(e.op)), col, i)),
                                 py38)],
             lineno |-> ln, col_offset |-> col]
    [] e.kind = "Compare" ->
         LET ts == [i \in 1..Len(e.ops) |-> CmpText(e.ops[i]) \o Operand(e.comparators[i])]
             at(i) == col + Len(Operand(e.left)) + SumLens(ts, i - 1) + Len(CmpText(e.ops[i]))
         IN [kind |-> "Compare",
             left |-> Place(e.left, ln, Inner(e.left, col), py38),
             ops |-> e.ops,
             comparators |-> [i \in 1..Len(e.ops) |->
                                Place(e.comparators[i], ln,
                                      Inner(e.comparators[i], at(i)), py38)],
             lineno |-> ln, col_offset |-> col]
    [] e.kind = "IfExp" ->
         LET tcol == col + Len(Operand(e.body)) + 4
             ocol == tcol + Len(Operand(e.test)) + 6
         IN [kind |-> "IfExp",
             test |-> Place(e.test, ln, Inner(e.test, tcol), py38),
             body |-> Place(e.body, ln, Inner(e.body, col), py38),
             orelse |-> Place(e.orelse, ln, Inner(e.orelse, ocol), py38),
             lineno |-> ln, col_offset |-> col]
    [] e.kind = "JoinedStr" ->
         LET ts == [i \in 1..Len(e.values) |-> PieceText(e.values[i])]
         IN [kind |-> "JoinedStr",
             values |-> [i \in 1..Len(e.values) |->
                           PlacePiece(e.values[i], ln, col, StartOf(ts, 0, col + 2, i), py38)],
             lineno |-> ln, col_offset |-> col]
    [] e.kind = "List" ->
         LET ts == [i \in 1..Len(e.elts) |-> Text(e.elts[i])]
         IN [kind |-> "List",
             elts |-> [i \in 1..Len(e.elts) |->
                         Place(e.elts[i], ln, StartOf(ts, 2, col + 1, i), py38)],
             lineno |-> ln, col_offset |-> col]
    [] e.kind = "Tuple" ->
         LET ts == [i \in 1..Len(e.elts) |-> Text(e.elts[i])]
         IN [kind |-> "Tuple",
             elts |-> [i \in 1..Len(e.elts) |->
                         Place(e.elts[i], ln, StartOf(ts, 2, col + 1, i), py38)],
             lineno |-> ln, col_offset |-> IF py38 \/ e.elts = <<>> THEN col ELSE col + 1]
    [] e.kind = "Subscript" ->
         [kind |-> "Subscript",
          value |-> Place(e.value, ln, Inner(e.value, col), py38),
          slice |-> PlaceSlice(e.slice, ln, col + Len(Operand(e.value)) + 1, py38),
          lineno |-> ln, col_offset |-> col]
    [] e.kind = "ListComp" ->
         LET ts == [i \in 1..Len(e.generators) |-> GenText(e.generators[i])]
         IN [kind |-> "ListComp",
             elt |-> Place(e.elt, ln, col + 1, py38),
             generators |-> [i \in 1..Len(e.generators) |->
                               PlaceGen(e.generators[i], ln,
                                        StartOf(ts, 0, col + 1 + Len(Text(e.elt)), i), py38)],
             lineno |-> ln, col_offset |-> col]
    [] e.kind = "Call" ->
         LET ts == [i \in 1..Len(e.args) |-> Text(e.args[i])]
         IN [kind |-> "Call",
             func |-> Place(e.func, ln, Inner(e.func, col), py38),
             args |-> [i \in 1..Len(e.args) |->
                         Place(e.args[i], ln,
                               StartOf(ts, 2, col + Len(Operand(e.func)) + 1, i), py38)],
             keywords |-> <<>>,
             lineno |-> ln, col_offset |-> col]
    [] e.kind = "Lambda" ->
         [kind |-> "Lambda", body |-> Place(e.body, ln, col + 8, py38),
          lineno |-> ln, col_offset |-> col]

(***************************************************************************)
(* Statements.  A simple statement is one line; a while statement holds    *)
(* its body on its own line ("while t: a; b") and its else branch on the   *)
(* next one.                                                               *)
(***************************************************************************)
Spaces(n) == [i \in 1..n |-> " "]

(* the expressions of a statement, in the order of the source *)
ItemParts(item) ==
  IF IsNone(item.optional_vars) THEN <<item.context_expr>>
  ELSE <<item.context_expr, item.optional_vars>>

StmtParts(s) ==
  CASE s.kind = "Expr" -> <<s.value>>
    [] s.kind = "Return" -> IF IsNone(s.value) THEN <<>> ELSE <<s.value>>
    [] s.kind = "Raise" -> IF IsNone(s.exc) THEN <<>> ELSE <<s.exc>>
    [] s.kind = "AugAssign" -> <<s.target, s.value>>
    [] s.kind = "Assign" -> Append(s.targets, s.value)
    [] s.kind = "AnnAssign" ->
         IF IsNone(s.value) THEN <<s.target, s.annotation>>
         ELSE <<s.target, s.annotation, s.value>>
    [] s.kind \in {"While", "If"} -> <<s.test>>
    [] s.kind = "For" -> <<s.target, s.iter>>
    [] s.kind = "With" -> Flatten([i \in 1..Len(s.items) |-> ItemParts(s.items[i])])
    [] OTHER -> <<>>

(* the separators of a with statement: ", " before an item but the first,  *)
(* " as " before a bound name                                               *)
ItemSeps(items) ==
  Flatten([i \in 1..Len(items) |->
             (IF i = 1 THEN <<>> ELSE << <<",", " ">> >>)
             \o (IF IsNone(items[i].optional_vars) THEN <<>>
                 ELSE << <<" ", "a", "s", " ">> >>)])

(* the text before, between and after the expressions of a statement *)
StmtTokens(s) ==
  CASE s.kind = "Expr" -> << <<>>, <<>> >>
    [] s.kind = "Return" ->
         IF IsNone(s.value) THEN << <<"r", "e", "t", "u", "r", "n">> >>
         ELSE << <<"r", "e", "t", "u", "r", "n", " ">>, <<>> >>
    [] s.kind = "Raise" ->
         IF IsNone(s.exc) THEN << <<"r", "a", "i", "s", "e">> >>
         ELSE << <<"r", "a", "i", "s", "e", " ">>, <<>> >>
    [] s.kind = "Pass" -> << <<"p", "a", "s", "s">> >>
    [] s.kind = "Global" -> << <<"g", "l", "o", "b", "a", "l", " ">> \o s.names[1] >>
    [] s.kind = "AugAssign" -> << <<>>, <<" ">> \o BinText(s.op) \o <<"=", " ">>, <<>> >>
    [] s.kind = "Assign" ->
         << <<>> >> \o [i \in 1..Len(s.targets) |-> <<" ", "=", " ">>] \o << <<>> >>
    [] s.kind = "AnnAssign" ->
         IF IsNone(s.value) THEN << <<>>, <<":", " ">>, <<>> >>
         ELSE << <<>>, <<":", " ">>, <<" ", "=", " ">>, <<>> >>
    [] s.kind = "While" -> << <<"w", "h", "i", "l", "e", " ">>, <<":", " ">> >>
    [] s.kind = "If" -> << <<"i", "f", " ">>, <<":", " ">> >>
    [] s.kind = "For" -> << <<"f", "o", "r", " ">>, <<" ", "i", "n", " ">>, <<":", " ">> >>
    [] s.kind = "With" ->
         << <<"w", "i", "t", "h", " ">> >> \o ItemSeps(s.items) \o << <<":", " ">> >>

Texts(parts) == [i \in 1..Len(parts) |-> Text(parts[i])]

Weave(tokens, texts) ==
  tokens[1] \o Flatten([i \in 1..Len(texts) |-> texts[i] \o tokens[i + 1]])

(* a statement up to its block *)
HeadText(s) == Weave(StmtTokens(s), Texts(StmtParts(s)))

BlockKinds == {"While", "If", "For", "With"}

HasElse(s) == s.kind \in {"While", "If"} /\ s.orelse # <<>>

RECURSIVE StmtText(_, _)
BlockText(body, indent) ==
  Join([i \in 1..Len(body) |-> StmtText(body[i], indent)], <<";", " ">>)

StmtText(s, indent) ==
  HeadText(s)
  \o (IF s.kind \in BlockKinds THEN BlockText(s.body, indent) ELSE <<>>)
  \o (IF HasElse(s)
      THEN <<"\n">> \o Spaces(indent) \o <<"e", "l", "s", "e", ":", " ">>
           \o BlockText(s.orelse, indent)
      ELSE <<>>)

(* the number of lines a statement takes *)
StmtLines(s) == IF HasElse(s) THEN 2 ELSE 1

(* the expressions of a statement with their locations: expression i      *)
(* starts after the tokens and the expressions before it                   *)
PlaceParts(parts, tokens, ln, col, py38) ==
  [i \in 1..Len(parts) |->
     Place(parts[i], ln, col + SumLens(tokens, i) + SumLens(Texts(parts), i - 1), py38)]

(* the index, among the expressions of a with statement, of the context   *)
(* expression of item i                                                    *)
RECURSIVE ItemAt(_, _)
ItemAt(items, i) ==
  IF i = 1 THEN 1 ELSE ItemAt(items, i - 1) + Len(ItemParts(items[i - 1]))

(* a with-item has no location of its own *)
LocatedItem(item, p, at) ==
  [kind |-> "withitem", context_expr |-> p[at],
   optional_vars |-> IF IsNone(item.optional_vars) THEN item.optional_vars ELSE p[at + 1]]

(* the statement with its location, p its located expressions *)
Located(s, ln, col, p, body, orelse) ==
  CASE s.kind = "Expr" ->
         [kind |-> "Expr", value |-> p[1], lineno |-> ln, col_offset |-> col]
    [] s.kind = "Return" ->
         [kind |-> "Return", value |-> IF IsNone(s.value) THEN s.value ELSE p[1],
          lineno |-> ln, col_offset |-> col]
    [] s.kind = "Raise" ->
         [kind |-> "Raise", exc |-> IF IsNone(s.exc) THEN s.exc ELSE p[1],
          lineno |-> ln, col_offset |-> col]
    [] s.kind = "Pass" -> [kind |-> "Pass", lineno |-> ln, col_offset |-> col]
    [] s.kind = "Global" ->
         [kind |-> "Global", names |-> s.names, lineno |-> ln, col_offset |-> col]
    [] s.kind = "AugAssign" ->
         [kind |-> "AugAssign", target |-> p[1], op |-> s.op, value |-> p[2],
          lineno |-> ln, col_offset |-> col]
    [] s.kind = "Assign" ->
         [kind |-> "Assign", targets |-> SubSeq(p, 1, Len(p) - 1), value |-> p[Len(p)],
          lineno |-> ln, col_offset |-> col]
    [] s.kind = "AnnAssign" ->
         [kind |-> "AnnAssign", target |-> p[1], annotation |-> p[2],
          value |-> IF IsNone(s.value) THEN s.value ELSE p[3],
          lineno |-> ln, col_offset |-> col]
    [] s.kind \in {"While", "If"} ->
         [kind |-> s.kind, test |-> p[1], body |-> body, orelse |-> orelse,
          lineno |-> ln, col_offset |-> col]
    [] s.kind = "For" ->
         [kind |-> "For", target |-> p[1], iter |-> p[2], body |-> body,
          lineno |-> ln, col_offset |-> col]
    [] s.kind = "With" ->
         [kind |-> "With",
          items |-> [i \in 1..Len(s.items) |->
                       LocatedItem(s.items[i], p, ItemAt(s.items, i))],
          body |-> body, lineno |-> ln, col_offset |-> col]

RECURSIVE PlaceStmt(_, _, _, _)
(* the statements of a block, on one line, "; " between them *)
PlaceBlock(block, ln, col, indent, py38) ==
  [i \in 1..Len(block) |->
     PlaceStmt(block[i], ln,
               StartOf([j \in 1..Len(block) |-> StmtText(block[j], indent)], 2, col, i),
               py38)]

(* the block follows the head on the same line, an else block follows     *)
(* "else: " on the next line                                               *)
PlaceStmt(s, ln, col, py38) ==
  Located(s, ln, col,
          PlaceParts(StmtParts(s), StmtTokens(s), ln, col, py38),
          IF s.kind \in BlockKinds
          THEN PlaceBlock(s.body, ln, col + Len(HeadText(s)), col, py38) ELSE <<>>,
          IF s.kind \in {"While", "If"}
          THEN PlaceBlock(s.orelse, ln + 1, col + 6, col, py38) ELSE <<>>)

(***************************************************************************)
(* A function definition: "def f(params) -> returns:" on line 1 and each   *)
(* statement of the body on a line of its own, indented by one column.     *)
(***************************************************************************)
ArgText(a) ==
  a.arg \o (IF IsNone(a.annotation) THEN <<>> ELSE <<":", " ">> \o Text(a.annotation))

(* the parameters as written, each with the column of its name in its text *)
ParamItems(a) ==
  [i \in 1..Len(a.args) |-> [text |-> ArgText(a.args[i]), pre |-> 0]]
  \o (IF ~IsNone(a.vararg) THEN <<[text |-> <<"*">> \o ArgText(a.vararg), pre |-> 1]>>
      ELSE IF a.kwonlyargs # <<>> THEN <<[text |-> <<"*">>, pre |-> 1]>>
      ELSE <<>>)
  \o [i \in 1..Len(a.kwonlyargs) |->
        [text |-> ArgText(a.kwonlyargs[i])
                  \o (IF IsNone(a.kw_defaults[i]) THEN <<>>
                      ELSE <<"=">> \o Text(a.kw_defaults[i])),
         pre |-> 0]]
  \o (IF ~IsNone(a.kwarg) THEN <<[text |-> <<"*", "*">> \o ArgText(a.kwarg), pre |-> 2]>>
      ELSE <<>>)

ParamsText(a) == Join([i \in 1..Len(ParamItems(a)) |-> ParamItems(a)[i].text], <<",", " ">>)

PlaceArg(a, ln, col, py38) ==
  IF IsNone(a) THEN a
  ELSE [kind |-> "arg", arg |-> a.arg,
        annotation |-> Place(a.annotation, ln, col + Len(a.arg) + 2, py38),
        lineno |-> ln, col_offset |-> col]

PlaceArguments(a, ln, col, py38) ==
  LET items == ParamItems(a)
      ts    == [i \in 1..Len(items) |-> items[i].text]
      at(k) == StartOf(ts, 2, col, k) + items[k].pre
      nstar == IF ~IsNone(a.vararg) \/ a.kwonlyargs # <<>> THEN 1 ELSE 0
      kwAt(i) == at(Len(a.args) + nstar + i)
  IN [kind |-> "arguments",
      args |-> [i \in 1..Len(a.args) |-> PlaceArg(a.args[i], ln, at(i), py38)],
      vararg |-> IF IsNone(a.vararg) THEN a.vararg
                 ELSE PlaceArg(a.vararg, ln, at(Len(a.args) + 1), py38),
      kwonlyargs |-> [i \in 1..Len(a.kwonlyargs) |->
                        PlaceArg(a.kwonlyargs[i], ln, kwAt(i), py38)],
      kw_defaults |-> [i \in 1..Len(a.kwonlyargs) |->
                         Place(a.kw_defaults[i], ln,
                               kwAt(i) + Len(ArgText(a.kwonlyargs[i])) + 1, py38)],
      kwarg |-> IF IsNone(a.kwarg) THEN a.kwarg
                ELSE PlaceArg(a.kwarg, ln, at(Len(items)), py38)]

HeaderText(f) ==
  <<"d", "e", "f", " ">> \o f.name \o <<"(">> \o ParamsText(f.args) \o <<")">>
  \o (IF IsNone(f.returns) THEN <<>> ELSE <<" ", "-", ">", " ">> \o Text(f.returns))
  \o <<":">>

FuncText(f) ==
  HeaderText(f)
  \o Flatten([i \in 1..Len(f.body) |-> <<"\n", " ">> \o StmtText(f.body[i], 1)])

RECURSIVE SumLines(_, _)
SumLines(body, n) == IF n = 0 THEN 0 ELSE StmtLines(body[n]) + SumLines(body, n - 1)

PlaceFunctionDef(f, py38) ==
  LET pcol == 4 + Len(f.name) + 1
      rcol == pcol + Len(ParamsText(f.args)) + 5
  IN [kind |-> "FunctionDef", name |-> f.name,
      args |-> PlaceArguments(f.args, 1, pcol, py38),
      returns |-> Place(f.returns, 1, rcol, py38),
      body |-> [i \in 1..Len(f.body) |->
                  PlaceStmt(f.body[i], 2 + SumLines(f.body, i - 1), 1, py38)],
      decorator_list |-> <<>>,
      lineno |-> 1, col_offset |-> 0]

(***************************************************************************)
(* SourceContext: the source text of the unit and the ranges over it.  A   *)
(* Range is a pair of offsets into the text; NoRange is Python's None.     *)
(***************************************************************************)
NoRange == [absent |-> TRUE]

make_raw_range(ctx, start, end) == [start |-> start, end |-> end]

(* the offset of the first character of a line, lines counted from 1 *)
RECURSIVE LineStart(_, _)
LineStart(source, line) ==
  IF line <= 1 THEN 0
  ELSE LET prev == LineStart(source, line - 1)
           rest == SubSeq(source, prev + 1, Len(source))
           nl   == IndexOf(rest, "\n")
       IN IF nl = 0 THEN Len(source) ELSE prev + nl

make_range(ctx, line, start_col, end_col) ==
  LET line_start == LineStart(ctx.source, line)
  IN [start |-> line_start + start_col, end |-> line_start + end_col]

SourceContext(source, uses_true_division) ==
  [source |-> source, uses_true_division |-> uses_true_division]

(***************************************************************************)
(* The outcome of a call: the value it returns or the exception it raises. *)
(***************************************************************************)
Ok(v) == [ok |-> TRUE, val |-> v]

(* msg holds the fixed part of the message *)
Throw(exc, source_range, msg) ==
  [ok |-> FALSE, exc |-> exc, source_range |-> source_range, msg |-> msg]

(* class FrontendError and its subclasses *)
FrontendError == {"FrontendError", "NotSupportedError", "UnsupportedNodeError",
                  "FrontendTypeError"}

NotSupportedError == {"NotSupportedError", "UnsupportedNodeError"}

AllOk(rs) == \A i \in 1..Len(rs) : rs[i].ok

FirstBad(rs) == rs[CHOOSE i \in 1..Len(rs) : ~rs[i].ok /\ \A j \in 1..(i - 1) : rs[j].ok]

Vals(rs) == [i \in 1..Len(rs) |-> rs[i].val]

(***************************************************************************)
(* The tree views.  Every node is [kind, range, op, value, kids]: op holds *)
(* an operator token or a flag, value a text, kids the sub-trees in the    *)
(* order of the constructor's arguments.  A constructor that is given no   *)
(* range takes the range of its first sub-tree.                            *)
(***************************************************************************)
Node(kind, range, op, value, kids) ==
  [kind |-> kind, range |-> range, op |-> op, value |-> value, kids |-> kids]

NoneTree == Node("None", NoRange, "", <<>>, <<>>)

TreeList(trees) == Node("list", NoRange, "", <<>>, trees)

Ident(r, name) == Node("Ident", r, "", name, <<>>)
Var(name) == Node("Var", name.range, "", <<>>, <<name>>)
Const(r, value) == Node("Const", r, "", value, <<>>)
StringLiteral(r, value) == Node("StringLiteral", r, "", value, <<>>)
TrueLiteral(r) == Node("TrueLiteral", r, "", <<>>, <<>>)
FalseLiteral(r) == Node("FalseLiteral", r, "", <<>>, <<>>)
NoneLiteral(r) == Node("NoneLiteral", r, "", <<>>, <<>>)
BinOp(kind, lhs, rhs) == Node("BinOp", lhs.range, kind, <<>>, <<lhs, rhs>>)
UnaryOp(r, kind, expr) == Node("UnaryOp", r, kind, <<>>, <<expr>>)
TernaryIf(cond, true_expr, false_expr) ==
  Node("TernaryIf", cond.range, "", <<>>, <<cond, true_expr, false_expr>>)
Attribute(name, value) == Node("Attribute", name.range, "", <<>>, <<name, value>>)
Apply(expr, args, kwargs) ==
  Node("Apply", expr.range, "", <<>>, <<expr, TreeList(args), TreeList(kwargs)>>)
Select(expr, field) == Node("Select", expr.range, "", <<>>, <<expr, field>>)
ListLiteral(r, args) == Node("ListLiteral", r, "", <<>>, <<TreeList(args)>>)
TupleLiteral(r, args) == Node("TupleLiteral", r, "", <<>>, <<TreeList(args)>>)
Dots(r) == Node("Dots", r, "", <<>>, <<>>)
SliceExpr(r, lower, upper, step) == Node("SliceExpr", r, "", <<>>, <<lower, upper, step>>)
Subscript(base, subscript_exprs) ==
  Node("Subscript", base.range, "", <<>>, <<base, TreeList(subscript_exprs)>>)
ListComp(r, elt, target, iter) == Node("ListComp", r, "", <<>>, <<elt, target, iter>>)
ExprStmt(expr) == Node("ExprStmt", expr.range, "", <<>>, <<expr>>)
Return(r, value) == Node("Return", r, "", <<>>, <<value>>)
Raise(r, expr) == Node("Raise", r, "", <<>>, <<expr>>)
Pass(r) == Node("Pass", r, "", <<>>, <<>>)
AugAssign(lhs, kind_str, rhs) == Node("AugAssign", lhs.range, kind_str, <<>>, <<lhs, rhs>>)
Assign(lhs, rhs, type) == Node("Assign", lhs[1].range, "", <<>>, <<TreeList(lhs), rhs, type>>)
If(r, cond, true_branch, false_branch) ==
  Node("If", r, "", <<>>, <<cond, TreeList(true_branch), TreeList(false_branch)>>)
For(r, targets, itrs, body) ==
  Node("For", r, "", <<>>, <<TreeList(targets), TreeList(itrs), TreeList(body)>>)
WithItem(r, target, var) == Node("WithItem", r, "", <<>>, <<target, var>>)
With(r, items, body) == Node("With", r, "", <<>>, <<TreeList(items), TreeList(body)>>)
While(r, cond, body) == Node("While", r, "", <<>>, <<cond, TreeList(body)>>)
EmptyTypeAnnotation(r) == Node("EmptyTypeAnnotation", r, "", <<>>, <<>>)
Param(type, name, kwarg_only) ==
  Node("Param", name.range, IF kwarg_only THEN "kwarg_only" ELSE "", <<>>, <<type, name>>)
Decl(r, params, return_type) == Node("Decl", r, "", <<>>, <<TreeList(params), return_type>>)
Def(name, decl, body) == Node("Def", name.range, "", <<>>, <<name, decl, TreeList(body)>>)

(***************************************************************************)
(* The static tables.                                                      *)
(***************************************************************************)
reserved_prefix == <<"_", "_", "j", "i", "t">>

pretty_node_names ==
  "FunctionDef" :> "function definitions"
  @@ "For" :> "for loops"
  @@ "Delete" :> "del statements"
  @@ "ClassDef" :> "class definitions"
  @@ "With" :> "with statements"
  @@ "Raise" :> "raise statements"
  @@ "Assert" :> "assertions"
  @@ "Import" :> "import statements"
  @@ "ImportFrom" :> "import statements"
  @@ "Global" :> "global variables"
  @@ "Break" :> "break statements"
  @@ "Continue" :> "continue statements"
  @@ "AsyncFunctionDef" :> "async function definitions"
  @@ "AsyncFor" :> "async for loops"
  @@ "AsyncWith" :> "async with statements"
  @@ "Try" :> "try blocks"
  @@ "Nonlocal" :> "nonlocal variables"
  @@ "AnnAssign" :> "annotated assignments"

node_start_tokens ==
  "FunctionDef" :> "def"
  @@ "For" :> "for"
  @@ "Delete" :> "del"
  @@ "ClassDef" :> "class"
  @@ "With" :> "with"
  @@ "Raise" :> "raise"
  @@ "Assert" :> "assert"
  @@ "Import" :> "import"
  @@ "ImportFrom" :> "from"
  @@ "Global" :> "global"
  @@ "Break" :> "break"
  @@ "Continue" :> "continue"
  @@ "AsyncFunctionDef" :> "async def"
  @@ "AsyncFor" :> "async for"
  @@ "AsyncWith" :> "async with"
  @@ "Try" :> "try"
  @@ "Nonlocal" :> "nonlocal"

augassign_map == [Add |-> "+", Sub |-> "-", Mult |-> "*", Div |-> "/", Mod |-> "%"]

binop_map ==
  [Add |-> "+", Sub |-> "-", Mult |-> "*", Div |-> "/", Pow |-> "**", Mod |-> "%",
   FloorDiv |-> "//", BitAnd |-> "&", BitXor |-> "^", BitOr |-> "|", LShift |-> "<<",
   RShift |-> ">>", MatMult |-> "@"]

unop_map == [Not |-> "not", USub |-> "-", Invert |-> "~"]

boolop_map == [And |-> "and", Or |-> "or"]

cmpop_map ==
  [Eq |-> "==", NotEq |-> "!=", LtE |-> "<=", Lt |-> "<", GtE |-> ">=", Gt |-> ">",
   Is |-> "is", IsNot |-> "is not", In |-> "in", NotIn |-> "not in"]

(* the build_<Kind> methods of the two builders *)
ExprBuilderMethods ==
  {"Attribute", "Call", "Ellipsis", "Name", "NameConstant", "BinOp", "UnaryOp", "BoolOp",
   "IfExp", "Compare", "Subscript", "List", "Tuple", "Dict", "Num", "Constant", "Str",
   "JoinedStr", "ListComp", "Starred"}

StmtBuilderMethods ==
  {"Expr", "Assign", "AnnAssign", "Delete", "Return", "Raise", "Assert", "AugAssign",
   "While", "For", "If", "Print", "Pass", "Break", "Continue", "With"}

(* UnsupportedNodeError(ctx, offending_node, reason): None has no lineno *)
UnsupportedNodeError(ctx, offending_node, reason) ==
  IF IsNone(offending_node) THEN Throw("AttributeError", NoRange, "lineno")
  ELSE LET node_type == offending_node.kind
           range_len == IF node_type \in DOMAIN node_start_tokens
                        THEN Len(node_start_tokens[node_type]) ELSE Len(" ")
           source_range == make_range(ctx, offending_node.lineno,
                                      offending_node.col_offset,
                                      offending_node.col_offset + range_len)
           feature_name == IF node_type \in DOMAIN pretty_node_names
                           THEN pretty_node_names[node_type] ELSE node_type
       IN Throw("UnsupportedNodeError", source_range,
                IF reason = "" THEN feature_name ELSE reason)

(* the attributes n and s, which a Constant reads from its value *)
attr_n(expr) == IF expr.kind = "Constant" THEN expr.value ELSE expr.n

attr_s(expr) == IF expr.kind = "Constant" THEN expr.value.s ELSE expr.s

(* isinstance(value, ast.Str) *)
IsStr(value) ==
  value.kind = "Str" \/ (value.kind = "Constant" /\ value.value.t = "str")

(***************************************************************************)
(* ExprBuilder.  Try(outcome, F) is the rest of a handler after a call:    *)
(* F on the value the call returned, or the exception the call raised.     *)
(***************************************************************************)
Try(outcome, F(_)) == IF outcome.ok THEN F(outcome.val) ELSE outcome

(* the outcome of [f(x) for x in xs]: the values, or the first exception *)
Collect(rs) == IF AllOk(rs) THEN Ok(Vals(rs)) ELSE FirstBad(rs)

RECURSIVE build_expr(_, _)

BuildAll(ctx, exprs) == Collect([i \in 1..Len(exprs) |-> build_expr(ctx, exprs[i])])

build_Name(ctx, expr) ==
  LET r == make_range(ctx, expr.lineno, expr.col_offset, expr.col_offset + Len(expr.id))
  IN IF StartsWith(expr.id, reserved_prefix)
     THEN Throw("NotSupportedError", r, "names can't start with __jit")
     ELSE IF expr.id = <<"T", "r", "u", "e">> THEN Ok(TrueLiteral(r))
     ELSE IF expr.id = <<"F", "a", "l", "s", "e">> THEN Ok(FalseLiteral(r))
     ELSE IF expr.id = <<"N", "o", "n", "e">> THEN Ok(NoneLiteral(r))
     ELSE Ok(Var(Ident(r, expr.id)))

build_NameConstant(ctx, expr) ==
  LET r == make_range(ctx, expr.lineno, expr.col_offset,
                      expr.col_offset + Len(PyStr(expr.value)))
  IN CASE expr.value.t = "bool" /\ expr.value.v = "True" -> Ok(TrueLiteral(r))
       [] expr.value.t = "bool" /\ expr.value.v = "False" -> Ok(FalseLiteral(r))
       [] expr.value.t = "NoneType" -> Ok(NoneLiteral(r))
       [] OTHER -> Throw("ValueError", NoRange, "Name constant value unsupported")

build_Num(ctx, expr) ==
  LET value == PyStr(attr_n(expr))
      r == make_range(ctx, expr.lineno, expr.col_offset, expr.col_offset + Len(value))
  IN Ok(Const(r, value))

build_Str(ctx, expr) ==
  LET value == attr_s(expr)
      r == make_range(ctx, expr.lineno, expr.col_offset, expr.col_offset + 1)
  IN Ok(StringLiteral(r, value))

(* a value is None, a bool, an int, a float or a str: no Ellipsis *)
build_Constant(ctx, expr) ==
  LET value == expr.value
  IN IF value.t \in {"NoneType", "bool"} THEN build_NameConstant(ctx, expr)
     ELSE IF value.t \in {"int", "float"} THEN build_Num(ctx, expr)
     ELSE IF value.t = "str" THEN build_Str(ctx, expr)
     ELSE Throw("FrontendError",
                make_range(ctx, expr.lineno, expr.col_offset,
                           expr.col_offset + Len(PyStr(value))),
                "Unknown Constant expression type")

build_BinOp(ctx, expr) ==
  Try(build_expr(ctx, expr.left), LAMBDA lhs :
  Try(build_expr(ctx, expr.right), LAMBDA rhs :
    LET op == expr.op
        err_range == make_raw_range(ctx, lhs.range.end, rhs.range.start)
    IN IF op = "Div" /\ ~ctx.uses_true_division
       THEN Throw("FrontendError", err_range, "Division of ints uses true division")
       ELSE IF op \notin DOMAIN binop_map
       THEN Throw("NotSupportedError", err_range, "unsupported binary operator")
       ELSE Ok(BinOp(binop_map[op], lhs, rhs))))

(* op_token = unop_map.get(op) is None for an operator outside the map,    *)
(* and len(op_token) is evaluated before op_token is tested                *)
build_UnaryOp(ctx, expr) ==
  Try(build_expr(ctx, expr.operand), LAMBDA sub_expr :
    LET op == expr.op
    IN IF op \notin DOMAIN unop_map
       THEN Throw("TypeError", NoRange, "object of type 'NoneType' has no len()")
       ELSE LET op_token == unop_map[op]
                r == make_range(ctx, expr.lineno, expr.col_offset,
                                expr.col_offset + Len(op_token))
            IN Ok(UnaryOp(r, op_token, sub_expr)))

(* BoolOpLoop folding to the right: a or (b or c) *)
RECURSIVE BoolOpLoopRight(_, _, _, _)
BoolOpLoopRight(op_token, lhs, sub_exprs, i) ==
  IF i > Len(sub_exprs) THEN lhs
  ELSE BinOp(op_token, lhs, BoolOpLoopRight(op_token, sub_exprs[i], sub_exprs, i + 1))

(* lhs = sub_exprs[0]; for rhs in sub_exprs[1:]: lhs = BinOp(op_token, lhs, rhs) *)
RECURSIVE BoolOpLoop(_, _, _, _)
BoolOpLoop(op_token, lhs, sub_exprs, i) ==
  IF i > Len(sub_exprs) THEN lhs
  ELSE BoolOpLoop(op_token, BinOp(op_token, lhs, sub_exprs[i]), sub_exprs, i + 1)

build_BoolOp(ctx, expr) ==
  IF Len(expr.values) < 2
  THEN Throw("AssertionError", NoRange, "expected at least 2 values in BoolOp")
  ELSE Try(BuildAll(ctx, expr.values), LAMBDA sub_exprs :
         LET op == expr.op
         IN IF op \notin DOMAIN boolop_map
            THEN Throw("NotSupportedError",
                       make_raw_range(ctx, sub_exprs[1].range.end, sub_exprs[2].range.start),
                       "unsupported boolean operator")
            ELSE Ok(BoolOpLoop(boolop_map[op], sub_exprs[1], sub_exprs, 2)))

build_IfExp(ctx, expr) ==
  Try(build_expr(ctx, expr.test), LAMBDA test :
  Try(build_expr(ctx, expr.body), LAMBDA body :
  Try(build_expr(ctx, expr.orelse), LAMBDA orelse :
    Ok(TernaryIf(test, body, orelse)))))

(* CompareLoop joining each comparison in front of the earlier ones *)
RECURSIVE CompareLoopFront(_, _, _, _, _)
CompareLoopFront(ctx, operands, ops, i, result_) ==
  IF i > Len(ops) \/ i + 1 > Len(operands) THEN Ok(result_)
  ELSE
  LET lhs == operands[i]
      rhs == operands[i + 1]
      op  == ops[i]
      r   == make_raw_range(ctx, lhs.range.end, rhs.range.start)
  IN IF op \notin DOMAIN cmpop_map
     THEN Throw("NotSupportedError", r, "unsupported comparison operator")
     ELSE
     LET cmp_expr == IF op = "NotIn" THEN UnaryOp(r, "not", BinOp("in", lhs, rhs))
                     ELSE BinOp(cmpop_map[op], lhs, rhs)
     IN CompareLoopFront(ctx, operands, ops, i + 1,
                         IF result_ = NoneTree THEN cmp_expr
                         ELSE BinOp("and", cmp_expr, result_))

(* the loop of build_Compare over zip(operands, expr.ops, operands[1:]) *)
RECURSIVE CompareLoop(_, _, _, _, _)
CompareLoop(ctx, operands, ops, i, result_) ==
  IF i > Len(ops) \/ i + 1 > Len(operands) THEN Ok(result_)
  ELSE
  LET lhs == operands[i]
      rhs == operands[i + 1]
      op  == ops[i]
      r   == make_raw_range(ctx, lhs.range.end, rhs.range.start)
  IN IF op \notin DOMAIN cmpop_map
     THEN Throw("NotSupportedError", r, "unsupported comparison operator")
     ELSE
     LET cmp_expr == IF op = "NotIn" THEN UnaryOp(r, "not", BinOp("in", lhs, rhs))
                     ELSE BinOp(cmpop_map[op], lhs, rhs)
     IN CompareLoop(ctx, operands, ops, i + 1,
                    IF result_ = NoneTree THEN cmp_expr
                    ELSE BinOp("and", result_, cmp_expr))

build_Compare(ctx, expr) ==
  Try(BuildAll(ctx, <<expr.left>> \o expr.comparators), LAMBDA operands :
    CompareLoop(ctx, operands, expr.ops, 1, NoneTree))

(* the loop of build_Call over expr.keywords *)
RECURSIVE KeywordsLoop(_, _, _, _)
KeywordsLoop(ctx, keywords, i, kwargs) ==
  IF i > Len(keywords) THEN Ok(kwargs)
  ELSE Try(build_expr(ctx, keywords[i].value), LAMBDA kw_expr :
         IF keywords[i].arg = <<>>
         THEN Throw("NotSupportedError", kw_expr.range,
                    "keyword-arg expansion is not supported")
         ELSE KeywordsLoop(ctx, keywords, i + 1,
                           Append(kwargs, Attribute(Ident(kw_expr.range, keywords[i].arg),
                                                    kw_expr))))

build_Call(ctx, expr) ==
  Try(build_expr(ctx, expr.func), LAMBDA func :
  Try(BuildAll(ctx, expr.args), LAMBDA args :
  Try(KeywordsLoop(ctx, expr.keywords, 1, <<>>), LAMBDA kwargs :
    Ok(Apply(func, args, kwargs)))))

build_List(ctx, expr) ==
  LET r == make_range(ctx, expr.lineno, expr.col_offset, expr.col_offset + 1)
  IN Try(BuildAll(ctx, expr.elts), LAMBDA elts : Ok(ListLiteral(r, elts)))

(* JoinedStrLoop putting each argument in front of the earlier ones *)
RECURSIVE JoinedStrLoopFront(_, _, _, _, _)
JoinedStrLoopFront(ctx, values, i, s, args) ==
  IF i > Len(values) THEN Ok([s |-> s, args |-> args])
  ELSE
  LET value == values[i]
      r == make_range(ctx, value.lineno, value.col_offset, value.col_offset + 1)
  IN IF value.kind = "FormattedValue"
     THEN IF value.conversion # -1
          THEN Throw("NotSupportedError", r, "Don't support conversion in JoinedStr")
          ELSE IF ~IsNone(value.format_spec)
          THEN Throw("NotSupportedError", r, "Don't support formatting in JoinedStr")
          ELSE Try(build_expr(ctx, value.value), LAMBDA a :
                 JoinedStrLoopFront(ctx, values, i + 1, s \o <<"{", "}">>, <<a>> \o args))
     ELSE IF IsStr(value)
     THEN JoinedStrLoopFront(ctx, values, i + 1, s \o attr_s(value), args)
     ELSE Throw("NotSupportedError", r, "Unsupported value in JoinedStr")

(* the loop of build_JoinedStr over expr.values, with s and args so far *)
RECURSIVE JoinedStrLoop(_, _, _, _, _)
JoinedStrLoop(ctx, values, i, s, args) ==
  IF i > Len(values) THEN Ok([s |-> s, args |-> args])
  ELSE
  LET value == values[i]
      r == make_range(ctx, value.lineno, value.col_offset, value.col_offset + 1)
  IN IF value.kind = "FormattedValue"
     THEN IF value.conversion # -1
          THEN Throw("NotSupportedError", r, "Don't support conversion in JoinedStr")
          ELSE IF ~IsNone(value.format_spec)
          THEN Throw("NotSupportedError", r, "Don't support formatting in JoinedStr")
          ELSE Try(build_expr(ctx, value.value), LAMBDA a :
                 JoinedStrLoop(ctx, values, i + 1, s \o <<"{", "}">>, Append(args, a)))
     ELSE IF IsStr(value)
     THEN JoinedStrLoop(ctx, values, i + 1, s \o attr_s(value), args)
     ELSE Throw("NotSupportedError", r, "Unsupported value in JoinedStr")

build_JoinedStr(ctx, expr) ==
  Try(JoinedStrLoop(ctx, expr.values, 1, <<>>, <<>>), LAMBDA loop :
    LET r == make_range(ctx, expr.lineno, expr.col_offset, expr.col_offset + 1)
    IN Ok(Apply(Select(StringLiteral(r, loop.s),
                       Ident(r, <<"f", "o", "r", "m", "a", "t">>)),
                loop.args, <<>>)))

build_ListComp(ctx, stmt) ==
  LET r == make_range(ctx, stmt.lineno, stmt.col_offset, stmt.col_offset)
  IN IF Len(stmt.generators) > 1
     THEN Throw("NotSupportedError", r, "multiple comprehension generators not supported yet")
     ELSE IF Len(stmt.generators[1].ifs) # 0
     THEN Throw("NotSupportedError", r, "comprehension ifs not supported yet")
     ELSE Try(build_expr(ctx, stmt.elt), LAMBDA elt_expr :
          Try(build_expr(ctx, stmt.generators[1].target), LAMBDA target_expr :
          Try(build_expr(ctx, stmt.generators[1].iter), LAMBDA iter_expr :
            Ok(ListComp(r, elt_expr, target_expr, iter_expr)))))

build_Tuple(ctx, expr) ==
  LET r == make_range(ctx, expr.lineno, expr.col_offset, expr.col_offset + 1)
  IN Try(BuildAll(ctx, expr.elts), LAMBDA elts : Ok(TupleLiteral(r, elts)))

(* lower, upper or step of a slice: None stays None *)
OptionalExpr(ctx, e) == IF IsNone(e) THEN Ok(NoneTree) ELSE build_expr(ctx, e)

build_SliceExpr(ctx, base, slice_expr) ==
  Try(OptionalExpr(ctx, slice_expr.lower), LAMBDA lower :
  Try(OptionalExpr(ctx, slice_expr.upper), LAMBDA upper :
  Try(OptionalExpr(ctx, slice_expr.step), LAMBDA step :
    Ok(SliceExpr(base.range, lower, upper, step)))))

build_Index(ctx, base, index_expr) ==
  IF index_expr.value.kind \in {"Tuple", "List"}
  THEN Throw("NotSupportedError", base.range,
             "slicing multiple dimensions with sequences not supported yet")
  ELSE build_expr(ctx, index_expr.value)

build_ExtSlice(ctx, base, extslice) ==
  Collect([i \in 1..Len(extslice.dims) |->
             LET expr == extslice.dims[i]
             IN IF expr.kind = "Index" THEN build_Index(ctx, base, expr)
                ELSE IF expr.kind = "Slice" THEN build_SliceExpr(ctx, base, expr)
                ELSE IF expr.kind = "Ellipsis" THEN Ok(Dots(base.range))
                ELSE Throw("NotSupportedError", base.range,
                           "slicing multiple dimensions with {} not supported")])

(* the Index branch of build_Subscript with the tuple index kept whole *)
build_PlainIndexWhole(ctx, base, index) ==
  Try(build_expr(ctx, index.value), LAMBDA i : Ok(Subscript(base, <<i>>)))

(* the Index branch of build_Subscript *)
build_PlainIndex(ctx, base, index) ==
  IF index.value.kind = "Tuple"
  THEN Try(BuildAll(ctx, index.value.elts), LAMBDA indices : Ok(Subscript(base, indices)))
  ELSE Try(build_expr(ctx, index.value), LAMBDA i : Ok(Subscript(base, <<i>>)))

build_Subscript(ctx, expr) ==
  Try(build_expr(ctx, expr.value), LAMBDA base :
    IF expr.slice.kind = "Index" THEN build_PlainIndex(ctx, base, expr.slice)
    ELSE IF expr.slice.kind = "Slice"
    THEN Try(build_SliceExpr(ctx, base, expr.slice), LAMBDA sl :
           Ok(Subscript(base, <<sl>>)))
    ELSE IF expr.slice.kind = "ExtSlice"
    THEN Try(build_ExtSlice(ctx, base, expr.slice), LAMBDA dims :
           Ok(Subscript(base, dims)))
    ELSE Throw("NotSupportedError", base.range, "ellipsis is not supported"))

(* Builder.__call__ of ExprBuilder *)
build_expr(ctx, node) ==
  IF node.kind \notin ExprBuilderMethods THEN UnsupportedNodeError(ctx, node, "")
  ELSE CASE node.kind = "Name"         -> build_Name(ctx, node)
         [] node.kind = "NameConstant" -> build_NameConstant(ctx, node)
         [] node.kind = "Num"          -> build_Num(ctx, node)
         [] node.kind = "Str"          -> build_Str(ctx, node)
         [] node.kind = "Constant"     -> build_Constant(ctx, node)
         [] node.kind = "BinOp"        -> build_BinOp(ctx, node)
         [] node.kind = "UnaryOp"      -> build_UnaryOp(ctx, node)
         [] node.kind = "BoolOp"       -> build_BoolOp(ctx, node)
         [] node.kind = "IfExp"        -> build_IfExp(ctx, node)
         [] node.kind = "Compare"      -> build_Compare(ctx, node)
         [] node.kind = "Call"         -> build_Call(ctx, node)
         [] node.kind = "List"         -> build_List(ctx, node)
         [] node.kind = "JoinedStr"    -> build_JoinedStr(ctx, node)
         [] node.kind = "ListComp"     -> build_ListComp(ctx, node)
         [] node.kind = "Tuple"        -> build_Tuple(ctx, node)
         [] node.kind = "Subscript"    -> build_Subscript(ctx, node)

(***************************************************************************)
(* StmtBuilder.                                                            *)
(***************************************************************************)
(* ctx.source[:pos].rindex(substr) for a substr of one character: the last *)
(* offset below pos that holds it, or -1 where rindex raises ValueError    *)
rindex(source, pos, substr) ==
  LET n    == IF pos < Len(source) THEN pos ELSE Len(source)
      hits == {i \in 1..n : source[i] = substr}
  IN IF hits = {} THEN -1
     ELSE (CHOOSE i \in hits : \A j \in hits : j <= i) - 1

find_before(ctx, pos, substr, offsets) ==
  LET new_pos == rindex(ctx.source, pos, substr)
  IN IF new_pos = -1 THEN Throw("ValueError", NoRange, "substring not found")
     ELSE Ok(make_raw_range(ctx, new_pos + offsets[1], new_pos + Len(substr) + offsets[2]))

RECURSIVE build_stmt(_, _)

(* [build_stmt(ctx, s) for s in stmts], then filter(None, stmts) *)
RECURSIVE build_stmts(_, _)
build_stmts(ctx, stmts) ==
  Try(Collect([i \in 1..Len(stmts) |-> build_stmt(ctx, stmts[i])]), LAMBDA built :
    Ok(SelectSeq(built, LAMBDA t : t # NoneTree)))

build_Expr(ctx, stmt) ==
  LET value == stmt.value
  IN IF value.kind = "Str" THEN Ok(NoneTree)
     ELSE Try(build_expr(ctx, value), LAMBDA e : Ok(ExprStmt(e)))

build_withitem(ctx, item) ==
  LET lineno == item.context_expr.lineno
      start == item.context_expr.col_offset
      end == start + Len(pretty_node_names["With"])
      op_vars == item.optional_vars
      r == make_range(ctx, lineno, start, end)
  IN Try(build_expr(ctx, item.context_expr), LAMBDA target :
     Try(OptionalExpr(ctx, op_vars), LAMBDA var :
       Ok(WithItem(r, target, var))))

build_withitems(ctx, items) ==
  Collect([i \in 1..Len(items) |-> build_withitem(ctx, items[i])])

build_Assign(ctx, stmt) ==
  Try(build_expr(ctx, stmt.value), LAMBDA rhs :
  Try(BuildAll(ctx, stmt.targets), LAMBDA lhs :
    Ok(Assign(lhs, rhs, NoneTree))))

build_AnnAssign(ctx, stmt) ==
  IF IsNone(stmt.value)
  THEN UnsupportedNodeError(ctx, stmt, "without assigned value")
  ELSE Try(build_expr(ctx, stmt.value), LAMBDA rhs :
       Try(build_expr(ctx, stmt.target), LAMBDA lhs :
       Try(build_expr(ctx, stmt.annotation), LAMBDA the_type :
         Ok(Assign(<<lhs>>, rhs, the_type)))))

build_Return(ctx, stmt) ==
  LET r == make_range(ctx, stmt.lineno, stmt.col_offset, stmt.col_offset + Len("return"))
  IN IF IsNone(stmt.value) THEN Ok(Return(r, NoneTree))
     ELSE Try(build_expr(ctx, stmt.value), LAMBDA e : Ok(Return(r, e)))

build_Raise(ctx, stmt) ==
  LET r == make_range(ctx, stmt.lineno, stmt.col_offset, stmt.col_offset + Len("raise"))
  IN Try(build_expr(ctx, stmt.exc), LAMBDA expr : Ok(Raise(r, expr)))

build_AugAssign(ctx, stmt) ==
  Try(build_expr(ctx, stmt.target), LAMBDA lhs :
  Try(build_expr(ctx, stmt.value), LAMBDA rhs :
    LET op == stmt.op
    IN IF op \in DOMAIN augassign_map
       THEN Ok(AugAssign(lhs, augassign_map[op], rhs))
       ELSE Try(find_before(ctx, rhs.range.start, "=", <<-1, 0>>), LAMBDA at :
              Throw("NotSupportedError", at,
                    "unsupported kind of augumented assignment"))))

build_While(ctx, stmt) ==
  IF stmt.orelse # <<>>
  THEN Throw("NotSupportedError", NoRange, "else branches of while loops aren't supported")
  ELSE LET r == make_range(ctx, stmt.lineno, stmt.col_offset,
                           stmt.col_offset + Len("while"))
       IN Try(build_expr(ctx, stmt.test), LAMBDA test :
          Try(build_stmts(ctx, stmt.body), LAMBDA body :
            Ok(While(r, test, body))))

build_For(ctx, stmt) ==
  LET r == make_range(ctx, stmt.lineno, stmt.col_offset, stmt.col_offset + Len("for"))
  IN Try(build_expr(ctx, stmt.target), LAMBDA target :
     Try(build_expr(ctx, stmt.iter), LAMBDA iter :
     Try(build_stmts(ctx, stmt.body), LAMBDA body :
       Ok(For(r, <<target>>, <<iter>>, body)))))

build_If(ctx, stmt) ==
  LET r == make_range(ctx, stmt.lineno, stmt.col_offset, stmt.col_offset + Len("if"))
  IN Try(build_expr(ctx, stmt.test), LAMBDA test :
     Try(build_stmts(ctx, stmt.body), LAMBDA body :
     Try(build_stmts(ctx, stmt.orelse), LAMBDA orelse :
       Ok(If(r, test, body, orelse)))))

build_With(ctx, stmt) ==
  LET r == make_range(ctx, stmt.lineno, stmt.col_offset, stmt.col_offset + Len("with"))
  IN Try(build_withitems(ctx, stmt.items), LAMBDA items :
     Try(build_stmts(ctx, stmt.body), LAMBDA body :
       Ok(With(r, items, body))))

build_Pass(ctx, stmt) ==
  Ok(Pass(make_range(ctx, stmt.lineno, stmt.col_offset, stmt.col_offset + Len("pass"))))

(* Builder.__call__ of StmtBuilder *)
build_stmt(ctx, node) ==
  IF node.kind \notin StmtBuilderMethods THEN UnsupportedNodeError(ctx, node, "")
  ELSE CASE node.kind = "Expr"      -> build_Expr(ctx, node)
         [] node.kind = "Return"    -> build_Return(ctx, node)
         [] node.kind = "Raise"     -> build_Raise(ctx, node)
         [] node.kind = "AugAssign" -> build_AugAssign(ctx, node)
         [] node.kind = "While"     -> build_While(ctx, node)
         [] node.kind = "Pass"      -> build_Pass(ctx, node)
         [] node.kind = "Assign"    -> build_Assign(ctx, node)
         [] node.kind = "AnnAssign" -> build_AnnAssign(ctx, node)
         [] node.kind = "For"       -> build_For(ctx, node)
         [] node.kind = "If"        -> build_If(ctx, node)
         [] node.kind = "With"      -> build_With(ctx, node)

(***************************************************************************)
(* Parameters, declarations and definitions.                               *)
(***************************************************************************)
vararg_kwarg_err ==
  "Compiled functions can't take variable number of arguments or use keyword-only arguments with defaults"

build_param(ctx, py_arg, self_name, kwarg_only) ==
  LET name == py_arg.arg
      r == make_range(ctx, py_arg.lineno, py_arg.col_offset, py_arg.col_offset + Len(name))
  IN IF ~IsNone(py_arg.annotation)
     THEN Try(build_expr(ctx, py_arg.annotation), LAMBDA annotation_expr :
            Ok(Param(annotation_expr, Ident(r, name), kwarg_only)))
     ELSE IF self_name # <<>> /\ name = <<"s", "e", "l", "f">>
     THEN Ok(Param(Var(Ident(r, self_name)), Ident(r, name), kwarg_only))
     ELSE Ok(Param(EmptyTypeAnnotation(r), Ident(r, name), kwarg_only))

(* the first keyword-only default that is not None, or 0 *)
FirstDefault(kw_defaults) ==
  IF \A i \in 1..Len(kw_defaults) : IsNone(kw_defaults[i]) THEN 0
  ELSE CHOOSE i \in 1..Len(kw_defaults) :
         /\ ~IsNone(kw_defaults[i])
         /\ \A j \in 1..(i - 1) : IsNone(kw_defaults[j])

build_param_list(ctx, py_args, self_name) ==
  IF ~IsNone(py_args.kwarg)
  THEN LET expr == py_args.kwarg
       IN Throw("NotSupportedError",
                make_range(ctx, expr.lineno, expr.col_offset - 1,
                           expr.col_offset + Len(expr.arg)),
                vararg_kwarg_err)
  ELSE IF ~IsNone(py_args.vararg)
  THEN LET expr == py_args.vararg
       IN Throw("NotSupportedError",
                make_range(ctx, expr.lineno, expr.col_offset - 1,
                           expr.col_offset + Len(expr.arg)),
                vararg_kwarg_err)
  ELSE IF FirstDefault(py_args.kw_defaults) # 0
  THEN Try(build_expr(ctx, py_args.kw_defaults[FirstDefault(py_args.kw_defaults)]),
           LAMBDA d : Throw("NotSupportedError", d.range, vararg_kwarg_err))
  ELSE Collect([i \in 1..(Len(py_args.args) + Len(py_args.kwonlyargs)) |->
                  IF i <= Len(py_args.args)
                  THEN build_param(ctx, py_args.args[i], self_name, FALSE)
                  ELSE build_param(ctx, py_args.kwonlyargs[i - Len(py_args.args)],
                                   self_name, TRUE)])

build_def(ctx, py_def, type_line, def_name, self_name) ==
  LET body == py_def.body
      r == make_range(ctx, py_def.lineno + Len(py_def.decorator_list), py_def.col_offset,
                      py_def.col_offset + Len("def"))
  IN Try(build_param_list(ctx, py_def.args, self_name), LAMBDA param_list :
     Try(IF ~IsNone(py_def.returns) THEN build_expr(ctx, py_def.returns) ELSE Ok(NoneTree),
         LAMBDA return_type :
     Try(build_stmts(ctx, body), LAMBDA stmts :
       Ok(Def(Ident(r, def_name), Decl(r, param_list, return_type), stmts)))))

(* ast.parse("def unused_fn(self: Any):\n\traise RuntimeError(\"Cannot call *)
(* @unused methods\")").body[0]                                            *)
unused_fn ==
  FunctionDef_(<<"u", "n", "u", "s", "e", "d", "_", "f", "n">>,
               arguments_(<<arg_(<<"s", "e", "l", "f">>, Name(<<"A", "n", "y">>))>>,
                          NoneNode, <<>>, <<>>, NoneNode),
               NoneNode,
               <<Raise_(Call_(Name(<<"R", "u", "n", "t", "i", "m", "e",
                                     "E", "r", "r", "o", "r">>),
                              <<Str(<<"C", "a", "n", "n", "o", "t", " ", "c", "a", "l",
                                      "l", " ", "@", "u", "n", "u", "s", "e", "d", " ",
                                      "m", "e", "t", "h", "o", "d", "s">>)>>))>>)

(* fn is the function object: its source, its syntax tree as ast.parse     *)
(* gives it, and whether should_drop(fn) holds; fn.unused_fn_def is what   *)
(* ast.parse gives for the stub                                            *)
get_jit_def(fn, def_name, self_name) ==
  LET ctx == SourceContext(fn.source, TRUE)
      py_def == fn.py_ast
      any == fn.unused_fn_def.args.args[1].annotation
      fn_def ==
        IF fn.should_drop
        THEN [py_def EXCEPT
                !.body = fn.unused_fn_def.body,
                !.args = [@ EXCEPT
                            !.kwarg = NoneNode,
                            !.vararg = NoneNode,
                            !.args = [i \in 1..Len(@) |-> [@[i] EXCEPT !.annotation = any]],
                            !.kwonlyargs =
                              [i \in 1..Len(@) |-> [@[i] EXCEPT !.annotation = any]]]]
        ELSE py_def
  IN build_def(ctx, fn_def, NoneNode, def_name, self_name)

(***************************************************************************)
(* The source units the model translates.                                  *)
(***************************************************************************)
SeqsUpTo(S, lo, hi) == UNION {[1..n -> S] : n \in lo..hi}

id_x == <<"x">>
id_y == <<"y">>
id_jit == <<"_", "_", "j", "i", "t", "_", "a">>

NumLiterals ==
  {<<"2">>, <<"1", "6">>, <<"0", "x", "1", "0">>, <<"1", "_", "0">>,
   <<"1", "e", "3">>, <<"1", "e", "9">>, <<"1", ".", "5", "0">>, <<"0", ".", "2", "5">>}

Leaves ==
  {Name(id_x), Name(id_y), Name(id_jit), Str(<<"a", "=">>),
   NameConstant("True"), NameConstant("None")}
  \cup {Num(t) : t \in NumLiterals}

UnaryExprs ==
  {UnaryOp_(op, e) : op \in {"Not", "USub", "Invert", "UAdd"},
                     e \in {Name(id_x), Num(<<"2">>), BoolOp_("And", <<Name(id_x), Name(id_y)>>)}}

BinExprs ==
  {BinOp_(l, op, r) : l \in {Name(id_x), Num(<<"1", "e", "3">>)},
                      op \in {"Add", "Div", "Pow", "MatMult"},
                      r \in {Name(id_y), UnaryOp_("UAdd", Name(id_x))}}

BoolOperands ==
  {Name(id_x), Num(<<"2">>), BoolOp_("Or", <<Name(id_x), Name(id_y)>>),
   UnaryOp_("UAdd", Name(id_x))}

BoolExprs ==
  {BoolOp_(op, vs) : op \in {"And", "Or"}, vs \in SeqsUpTo(BoolOperands, 2, MaxBoolValues)}

CmpOperands == {Name(id_x), Num(<<"1", "e", "9">>)}

CmpOps == {"Lt", "In", "NotIn"}

CmpExprs ==
  UNION {{Compare_(es[1], ops, Tail(es)) : es \in [1..(n + 1) -> CmpOperands],
                                          ops \in [1..n -> CmpOps]} : n \in 1..MaxCmpOps}
  \cup {Compare_(Name(id_x), <<op>>, <<Name(id_y)>>) : op \in DOMAIN cmpop_map}
  \cup {Compare_(Name(id_jit), <<"Lt">>, <<Name(id_y)>>),
        Compare_(Num(<<"1", "e", "3">>), <<"Lt">>, <<Name(id_y)>>)}

IfExprs ==
  {IfExp_(Name(id_x), b, Name(id_y)) :
     b \in {Name(id_y), Str(<<"=">>),
            Compare_(Name(id_x), <<"Eq">>, <<Name(id_y)>>)}}

Pieces ==
  {Str(<<"a">>), Str(<<"{">>),
   FormattedValue_(Name(id_x), -1, NoneNode),
   FormattedValue_(Num(<<"0", "x", "1", "0">>), -1, NoneNode),
   FormattedValue_(Name(id_x), 114, NoneNode),
   FormattedValue_(Name(id_y), -1, JoinedStr_(<<Str(<<">", "4">>)>>)),
   FormattedValue_(UnaryOp_("UAdd", Name(id_x)), -1, NoneNode)}

(* the parser joins adjacent literal segments into one *)
JoinedStrs ==
  {JoinedStr_(ps) : ps \in {q \in SeqsUpTo(Pieces, 0, MaxPieces) :
                              \A i \in 1..(Len(q) - 1) :
                                ~(q[i].kind = "Str" /\ q[i + 1].kind = "Str")}}

IndexOperands == {Name(id_y), Num(<<"2">>)}

Slices ==
  {Index_(Tuple_(es)) : es \in SeqsUpTo(IndexOperands, 0, MaxIndices)}
  \cup {Index_(e) : e \in {Name(id_y), List_(<<Name(id_y), Num(<<"2">>)>>), List_(<<>>),
                           Tuple_(<<Name(id_y), UnaryOp_("UAdd", Name(id_x))>>),
                           Tuple_(<<Tuple_(<<Name(id_y), Num(<<"2">>)>>)>>),
                           Lambda_(Name(id_x))}}
  \cup {Slice_(NoneNode, NoneNode, NoneNode), Slice_(Name(id_y), Num(<<"2">>), NoneNode),
        Slice_(NoneNode, Name(id_y), Num(<<"2">>)),
        ExtSlice_(<<Index_(Name(id_y)), Slice_(NoneNode, Num(<<"2">>), NoneNode)>>),
        ExtSlice_(<<Slice_(NoneNode, NoneNode, NoneNode),
                    Index_(Tuple_(<<Name(id_y), Num(<<"2">>)>>))>>),
        ExtSlice_(<<Slice_(NoneNode, NoneNode, NoneNode),
                    Index_(List_(<<Name(id_y)>>))>>)}

SubscriptExprs ==
  {Subscript_(Name(id_x), sl) : sl \in Slices}
  \cup {Subscript_(Name(id_jit), Index_(Name(id_y))),
        Tuple_(<<Name(id_x), Name(id_y)>>)}

OtherExprs ==
  {List_(<<>>), List_(<<Name(id_x), Num(<<"2">>)>>),
   ListComp_(Name(id_x), <<comprehension_(Name(id_x), Name(id_y), <<>>)>>),
   ListComp_(Name(id_x), <<comprehension_(Name(id_x), Name(id_y), <<Name(id_x)>>)>>),
   ListComp_(Name(id_x), <<comprehension_(Name(id_x), Name(id_y), <<>>),
                           comprehension_(Name(id_y), Name(id_x), <<>>)>>),
   Call_(Name(id_x), <<Name(id_y)>>),
   Lambda_(Name(id_x))}

Exprs ==
  Leaves \cup UnaryExprs \cup BinExprs \cup BoolExprs \cup CmpExprs \cup IfExprs
  \cup JoinedStrs \cup OtherExprs \cup SubscriptExprs

AugOps == {"Add", "Sub", "Mult", "Div", "Mod", "Pow", "FloorDiv", "BitAnd", "LShift",
           "MatMult"}

AugValues ==
  IfExprs
  \cup {Num(<<"2">>), Name(id_y), Name(id_jit), UnaryOp_("UAdd", Name(id_x)),
        Compare_(Name(id_x), <<"Eq">>, <<Name(id_y)>>),
        Compare_(Num(<<"1", "e", "1", "5">>), <<"NotIn">>, <<Str(<<"=">>)>>),
        List_(<<Name(id_x), Num(<<"2">>)>>)}

SimpleStmts ==
  {Expr_(e) : e \in Exprs}
  \cup {Return_(e) : e \in Leaves \cup OtherExprs \cup {NoneNode}}
  \cup {Raise_(NoneNode), Raise_(Call_(Name(id_x), <<Name(id_y)>>))}
  \cup {Pass_, Global_(id_x)}
  \cup {AugAssign_(t, op, v) : t \in {Name(id_x), Name(id_jit)}, op \in AugOps,
                               v \in AugValues}

WhileStmts ==
  {While_(Name(id_x), body, orelse) :
     body \in {<<Pass_>>, <<Expr_(Str(<<"a">>)), Pass_>>,
               <<Expr_(UnaryOp_("UAdd", Name(id_x)))>>},
     orelse \in {<<>>, <<Pass_>>}}

AssignStmts ==
  {Assign_(<<Name(id_x)>>, Num(<<"2">>)),
   Assign_(<<Name(id_x), Name(id_y)>>, Name(id_y)),
   Assign_(<<Name(id_x)>>, Lambda_(Name(id_x)))}
  \cup {AnnAssign_(Name(id_x), Name(<<"T">>), v) :
          v \in {NoneNode, Num(<<"2">>), Lambda_(Name(id_x))}}

Blocks ==
  {<<Pass_>>, <<Expr_(Str(<<"a">>)), Pass_>>, <<Pass_, Expr_(Str(<<"a">>))>>,
   <<Expr_(Name(id_y)), Expr_(Str(<<"a">>)), Expr_(Num(<<"2">>))>>,
   <<Expr_(Str(<<"a">>))>>}

Items ==
  {<<withitem_(Name(id_y), v)>> : v \in {NoneNode, Name(id_x)}}
  \cup {<<withitem_(Call_(Name(id_x), <<>>), Name(id_y)), withitem_(Name(id_y), NoneNode)>>,
        <<withitem_(Lambda_(Name(id_x)), NoneNode)>>}

BlockStmts ==
  {If_(Name(id_x), body, orelse) : body \in Blocks, orelse \in Blocks \cup {<<>>}}
  \cup {For_(Name(id_x), Name(id_y), body) : body \in Blocks}
  \cup {With_(items, body) : items \in Items, body \in Blocks}

Stmts == SimpleStmts \cup WhileStmts \cup AssignStmts \cup BlockStmts

id_f == <<"f">>
id_self == <<"s", "e", "l", "f">>

PlainArgs == arguments_(<<arg_(id_x, NoneNode)>>, NoneNode, <<>>, <<>>, NoneNode)

Annotations == {NoneNode, Name(<<"T">>), Lambda_(Name(id_x))}

ArgLists ==
  {<<arg_(id_self, NoneNode)>>}
  \cup {<<arg_(id_self, NoneNode), arg_(id_x, a)>> : a \in Annotations}

KwOnly ==
  {[names |-> <<>>, defaults |-> <<>>]}
  \cup {[names |-> <<arg_(<<"k">>, a)>>, defaults |-> <<d>>] :
          a \in {NoneNode, Lambda_(Name(id_x))}, d \in {NoneNode, Num(<<"2">>)}}
  \cup {[names |-> <<arg_(<<"k">>, NoneNode), arg_(<<"m">>, NoneNode)>>,
         defaults |-> <<NoneNode, d>>] : d \in {NoneNode, Name(id_y)}}
  \cup {[names |-> <<arg_(<<"k">>, NoneNode)>>, defaults |-> <<d>>] :
          d \in {UnaryOp_("UAdd", Num(<<"2">>)), Lambda_(Name(id_x)),
                 NameConstant("None")}}

Signatures ==
  {arguments_(as, va, kw.names, kw.defaults, ka) :
     as \in ArgLists, va \in {NoneNode, arg_(<<"a">>, NoneNode)}, kw \in KwOnly,
     ka \in {NoneNode, arg_(<<"k", "w">>, NoneNode)}}

(* the functions: every statement under a plain signature, and every       *)
(* signature over a few bodies                                             *)
BodyFunctions ==
  {FunctionDef_(id_f, PlainArgs, NoneNode, <<s>>) : s \in Stmts}
  \cup {FunctionDef_(id_f, PlainArgs, NoneNode, <<Expr_(Str(<<"a">>)), s>>) :
          s \in {Pass_, Return_(Name(id_x))}}

SignatureFunctions ==
  {FunctionDef_(id_f, sig, ret, body) :
     sig \in Signatures, ret \in Annotations,
     body \in {<<Pass_>>, <<Global_(id_x)>>}}

(* the function object fn: its source, its syntax tree as ast.parse gives  *)
(* it, whether should_drop(fn) holds, and the names get_jit_def is given   *)
Unit(f, should_drop, py38, self_name) ==
  [source |-> FuncText(f), py_ast |-> PlaceFunctionDef(f, py38),
   unused_fn_def |-> PlaceFunctionDef(unused_fn, py38),
   should_drop |-> should_drop, py38 |-> py38,
   def_name |-> f.name, self_name |-> self_name]

Units ==
  {Unit(f, FALSE, v, <<>>) : f \in BodyFunctions, v \in BOOLEAN}
  \cup {Unit(f, d, v, sn) : f \in SignatureFunctions, d \in BOOLEAN, v \in BOOLEAN,
                            sn \in {<<>>, <<"M">>}}

(***************************************************************************)
(* The nodes of a unit: the arguments of the calls of build_stmt and       *)
(* build_expr that a translation can make.                                 *)
(***************************************************************************)
SeqSet(q) == {q[i] : i \in 1..Len(q)}

RECURSIVE SliceKids(_)
SliceKids(sl) ==
  CASE sl.kind = "Index" -> {sl.value}
    [] sl.kind = "Slice" -> {k \in {sl.lower, sl.upper, sl.step} : ~IsNone(k)}
    [] sl.kind = "ExtSlice" -> UNION {SliceKids(sl.dims[i]) : i \in 1..Len(sl.dims)}

ExprKids(e) ==
  CASE e.kind = "UnaryOp" -> {e.operand}
    [] e.kind = "Tuple" -> SeqSet(e.elts)
    [] e.kind = "Subscript" -> {e.value} \cup SliceKids(e.slice)
    [] e.kind = "BinOp" -> {e.left, e.right}
    [] e.kind = "BoolOp" -> SeqSet(e.values)
    [] e.kind = "Compare" -> {e.left} \cup SeqSet(e.comparators)
    [] e.kind = "IfExp" -> {e.test, e.body, e.orelse}
    [] e.kind = "JoinedStr" ->
         {e.values[i].value : i \in {j \in 1..Len(e.values) :
                                       e.values[j].kind = "FormattedValue"}}
    [] e.kind = "List" -> SeqSet(e.elts)
    [] e.kind = "ListComp" ->
         {e.elt} \cup UNION {{g.target, g.iter} \cup SeqSet(g.ifs) : g \in SeqSet(e.generators)}
    [] e.kind = "Call" -> {e.func} \cup SeqSet(e.args)
    [] e.kind = "Lambda" -> {e.body}
    [] OTHER -> {}

RECURSIVE SubExprs(_)
SubExprs(e) == {e} \cup UNION {SubExprs(k) : k \in ExprKids(e)}

RECURSIVE SubStmts(_)
SubStmts(s) ==
  {s} \cup (IF s.kind \in {"While", "If"}
            THEN UNION {SubStmts(t) : t \in SeqSet(s.body) \cup SeqSet(s.orelse)}
            ELSE IF s.kind \in {"For", "With"}
            THEN UNION {SubStmts(t) : t \in SeqSet(s.body)}
            ELSE {})

StmtExprs(s) ==
  CASE s.kind = "Expr" -> {s.value}
    [] s.kind = "Return" -> IF IsNone(s.value) THEN {} ELSE {s.value}
    [] s.kind = "Raise" -> IF IsNone(s.exc) THEN {} ELSE {s.exc}
    [] s.kind = "AugAssign" -> {s.target, s.value}
    [] s.kind = "While" -> {s.test}
    [] s.kind = "If" -> {s.test}
    [] s.kind = "For" -> {s.target, s.iter}
    [] s.kind = "Assign" -> SeqSet(s.targets) \cup {s.value}
    [] s.kind = "AnnAssign" ->
         IF IsNone(s.value) THEN {} ELSE {s.value, s.target, s.annotation}
    [] s.kind = "With" ->
         UNION {{s.items[i].context_expr}
                \cup (IF IsNone(s.items[i].optional_vars) THEN {}
                      ELSE {s.items[i].optional_vars}) : i \in 1..Len(s.items)}
    [] OTHER -> {}

UnitStmts(fn) == UNION {SubStmts(s) : s \in SeqSet(fn.py_ast.body)}

UnitExprs(fn) == UNION {SubExprs(e) : e \in UNION {StmtExprs(s) : s \in UnitStmts(fn)}}

(***************************************************************************)
(* The state machine: a unit is drawn, then one entry point is applied.    *)
(***************************************************************************)
Init ==
  /\ unit \in Units
  /\ pc = "ready"
  /\ call = "none"
  /\ arg = NoneNode
  /\ result = Ok(NoneTree)

GetJitDef ==
  /\ pc = "ready"
  /\ result' = get_jit_def(unit, unit.def_name, unit.self_name)
  /\ call' = "get_jit_def"
  /\ arg' = unit.py_ast
  /\ pc' = "done"
  /\ UNCHANGED unit

BuildStmt ==
  /\ pc = "ready"
  /\ ~unit.should_drop
  /\ \E s \in UnitStmts(unit) :
       /\ result' = build_stmt(SourceContext(unit.source, TRUE), s)
       /\ arg' = s
  /\ call' = "build_stmt"
  /\ pc' = "done"
  /\ UNCHANGED unit

BuildExpr ==
  /\ pc = "ready"
  /\ ~unit.should_drop
  /\ \E e \in UnitExprs(unit) :
       /\ result' = build_expr(SourceContext(unit.source, TRUE), e)
       /\ arg' = e
  /\ call' = "build_expr"
  /\ pc' = "done"
  /\ UNCHANGED unit

BuildParamList ==
  /\ pc = "ready"
  /\ ~unit.should_drop
  /\ result' = build_param_list(SourceContext(unit.source, TRUE), unit.py_ast.args,
                                unit.self_name)
  /\ call' = "build_param_list"
  /\ arg' = unit.py_ast.args
  /\ pc' = "done"
  /\ UNCHANGED unit

(* build_withitem on a with-item of a with statement of the unit *)
UnitItems(fn) ==
  UNION {SeqSet(s.items) : s \in {t \in UnitStmts(fn) : t.kind = "With"}}

BuildWithItem ==
  /\ pc = "ready"
  /\ ~unit.should_drop
  /\ \E item \in UnitItems(unit) :
       /\ result' = build_withitem(SourceContext(unit.source, TRUE), item)
       /\ arg' = item
  /\ call' = "build_withitem"
  /\ pc' = "done"
  /\ UNCHANGED unit

Next == GetJitDef \/ BuildStmt \/ BuildExpr \/ BuildParamList \/ BuildWithItem

Spec == Init /\ [][Next]_vars

(***************************************************************************)
(* What the properties read: the context of the unit, the ranges of an     *)
(* outcome, and a tree without its ranges.                                 *)
(***************************************************************************)
Done(entry) == pc = "done" /\ call = entry

UnitContext == SourceContext(unit.source, TRUE)

Translated(exprs) == [i \in 1..Len(exprs) |-> build_expr(UnitContext, exprs[i])]

RECURSIVE TreeRanges(_)
TreeRanges(t) ==
  (IF t.range = NoRange THEN {} ELSE {t.range})
  \cup UNION {TreeRanges(t.kids[i]) : i \in 1..Len(t.kids)}

(* build_param_list returns a list of trees, every other entry one tree *)
OutcomeRanges(o) ==
  IF o.ok
  THEN IF call = "build_param_list"
       THEN UNION {TreeRanges(o.val[i]) : i \in 1..Len(o.val)}
       ELSE TreeRanges(o.val)
  ELSE IF o.source_range = NoRange THEN {} ELSE {o.source_range}

RECURSIVE Shape(_)
Shape(t) ==
  [kind |-> t.kind, op |-> t.op, value |-> t.value,
   kids |-> [i \in 1..Len(t.kids) |-> Shape(t.kids[i])]]

(* the offset of a located node in the source of the unit *)
OffsetOf(node) == LineStart(unit.source, node.lineno) + node.col_offset

WhileElseMsg == "else branches of while loops aren't supported"

(***************************************************************************)
(* C1: a translation ends in an IR tree or in one diagnostic of the        *)
(* FrontendError family (UnsupportedConstruct, NotSupported or             *)
(* SemanticError) that carries a Range, the Range being absent only for    *)
(* the while/else rejection; no other kind of exception escapes.           *)
(***************************************************************************)
C1_OneOutcome ==
  pc = "done" =>
    \/ result.ok
    \/ /\ result.exc \in FrontendError
       /\ (result.source_range = NoRange => result.msg = WhileElseMsg)

(***************************************************************************)
(* C2: every Range attached to an IR node or to a diagnostic of a          *)
(* translation has start <= end, the gap ranges between two operands       *)
(* included.                                                               *)
(***************************************************************************)
C2_RangesOrdered ==
  pc = "done" => \A r \in OutcomeRanges(result) : r.start <= r.end

(***************************************************************************)
(* C3: the IR node of a handler that computes its range itself has a       *)
(* non-empty range inside the source text that starts at the location of   *)
(* the syntax node, list comprehensions included.                          *)
(***************************************************************************)
OwnRangeKinds ==
  {"Name", "NameConstant", "Num", "Str", "Constant", "UnaryOp", "List", "JoinedStr",
   "ListComp", "Return", "Raise", "While", "Pass"}

C3_NodeRange ==
  (/\ pc = "done"
   /\ call \in {"build_stmt", "build_expr"}
   /\ arg.kind \in OwnRangeKinds
   /\ result.ok
   /\ result.val # NoneTree)
  => /\ result.val.range.start < result.val.range.end
     /\ result.val.range.end <= Len(unit.source)
     /\ result.val.range.start = OffsetOf(arg)

(***************************************************************************)
(* C4: for a function that should_drop marks inactive, get_jit_def raises  *)
(* nothing, whatever the parameters, annotations and body of the function  *)
(* hold, and returns a Def whose body is the stub that raises.             *)
(***************************************************************************)
C4_DroppedTranslates ==
  (Done("get_jit_def") /\ unit.should_drop)
  => /\ result.ok
     /\ result.val.kind = "Def"
     /\ Len(result.val.kids[3].kids) = 1
     /\ result.val.kids[3].kids[1].kind = "Raise"

(***************************************************************************)
(* C5: build_BoolOp on operands e1..en (n >= 2) that translate to          *)
(* e1'..en' returns the left fold BinOp(op, ... BinOp(op, e1', e2') ...,   *)
(* en'), op being 'and' or 'or'.                                           *)
(***************************************************************************)
RECURSIVE LeftFold(_, _, _)
LeftFold(op, es, n) ==
  IF n = 1 THEN es[1] ELSE BinOp(op, LeftFold(op, es, n - 1), es[n])

C5_BoolOpLeftFold ==
  (Done("build_expr") /\ arg.kind = "BoolOp" /\ AllOk(Translated(arg.values)))
  => /\ result.ok
     /\ result.val = LeftFold(IF arg.op = "And" THEN "and" ELSE "or",
                              Vals(Translated(arg.values)), Len(arg.values))

C5_Witness ==
  /\ Done("build_expr")
  /\ arg.kind = "BoolOp"
  /\ Len(arg.values) >= 3
  /\ result.ok
  /\ result.val.kids[1].kind = "BinOp"

(***************************************************************************)
(* C6: build_Compare on operands e0..en that translate, with operators     *)
(* o1..on, returns the left-associated conjunction of the pairwise         *)
(* comparisons c1..cn in source order, ci being BinOp(oi, e(i-1)', ei'),   *)
(* or UnaryOp('not', BinOp('in', e(i-1)', ei')) for 'not in'; c1 alone     *)
(* for n = 1.                                                              *)
(***************************************************************************)
Pairwise(op, lhs, rhs) ==
  IF op = "NotIn" THEN UnaryOp(NoRange, "not", BinOp("in", lhs, rhs))
  ELSE BinOp(cmpop_map[op], lhs, rhs)

RECURSIVE Conjunction(_, _, _)
Conjunction(es, ops, n) ==
  IF n = 1 THEN Pairwise(ops[1], es[1], es[2])
  ELSE BinOp("and", Conjunction(es, ops, n - 1), Pairwise(ops[n], es[n], es[n + 1]))

LiteralChars == {Digits[i] : i \in 1..16} \cup {"x", ".", "_"}

(* the length of the numeric literal written at an offset of the source *)
RECURSIVE SpellingLen(_, _)
SpellingLen(source, off) ==
  IF off < Len(source) /\ source[off + 1] \in LiteralChars
  THEN 1 + SpellingLen(source, off + 1) ELSE 0

Spelling(node) ==
  SubSeq(unit.source, OffsetOf(node) + 1,
         OffsetOf(node) + SpellingLen(unit.source, OffsetOf(node)))

IsNumber(node) ==
  node.kind = "Num" \/ (node.kind = "Constant" /\ node.value.t \in {"int", "float"})

C7_NumSpelling ==
  (Done("build_expr") /\ IsNumber(arg) /\ result.ok)
  => /\ result.val.kind = "Const"
     /\ result.val.value = Spelling(arg)
     /\ result.val.range.end - result.val.range.start = Len(Spelling(arg))

(***************************************************************************)
(* C8: build_UnaryOp on an operator other than 'not', '-' and '~', with an *)
(* operand that translates, raises NotSupported with a Range, and nothing  *)
(* else.                                                                   *)
(***************************************************************************)
C8_UnaryOpRejects ==
  (/\ Done("build_expr")
   /\ arg.kind = "UnaryOp"
   /\ arg.op \notin {"Not", "USub", "Invert"}
   /\ build_expr(UnitContext, arg.operand).ok)
  => /\ ~result.ok
     /\ result.exc = "NotSupportedError"
     /\ result.source_range # NoRange

(***************************************************************************)
(* C9: build_JoinedStr, when no interpolation has a conversion or a format *)
(* spec and the interpolated expressions translate, returns                *)
(* Apply(Select(StringLiteral(T), 'format'), args, []), T being the        *)
(* literal segments and one '{}' per interpolation in source order and     *)
(* args the translated expressions in source order; an interpolation with  *)
(* a conversion or a format spec raises NotSupported.                      *)
(***************************************************************************)
Interpolations(values) == SelectSeq(values, LAMBDA v : v.kind = "FormattedValue")

Plain(v) == v.conversion = -1 /\ IsNone(v.format_spec)

RECURSIVE Template(_)
Template(values) ==
  IF values = <<>> THEN <<>>
  ELSE (IF Head(values).kind = "FormattedValue" THEN <<"{", "}">> ELSE attr_s(Head(values)))
       \o Template(Tail(values))

FormatCall(values, args) ==
  Apply(Select(StringLiteral(NoRange, Template(values)),
               Ident(NoRange, <<"f", "o", "r", "m", "a", "t">>)),
        args, <<>>)

C9_JoinedStrFormat ==
  (Done("build_expr") /\ arg.kind = "JoinedStr")
  => LET ins == Interpolations(arg.values)
         tr  == [i \in 1..Len(ins) |-> build_expr(UnitContext, ins[i].value)]
     IN IF \A i \in 1..Len(ins) : Plain(ins[i])
        THEN AllOk(tr) => /\ result.ok
                          /\ Shape(result.val) = Shape(FormatCall(arg.values, Vals(tr)))
        ELSE (\A i \in 1..Len(ins) : (\A j \in 1..i : Plain(ins[j])) => tr[i].ok)
             => ~result.ok /\ result.exc = "NotSupportedError"

C9_Witness ==
  /\ Done("build_expr")
  /\ arg.kind = "JoinedStr"
  /\ Len(Interpolations(arg.values)) = 2
  /\ result.ok
  /\ Len(result.val.kids[2].kids) = 2
  /\ result.val.kids[2].kids[1] # result.val.kids[2].kids[2]

(***************************************************************************)
(* C10: build_AugAssign on a target and a right-hand side that translate:  *)
(* with an operator among += -= *= /= %= it returns AugAssign(lhs, token,  *)
(* rhs); with any other operator it raises NotSupported whose range        *)
(* contains the offset of the '=' of the operator token.                   *)
(***************************************************************************)
(* the offset of the '=' of "target op= value" *)
OperatorEq(stmt) ==
  OffsetOf(stmt.target) + Len(stmt.target.id) + 1 + Len(BinText(stmt.op))

AugToken(op) ==
  CASE op = "Add" -> "+" [] op = "Sub" -> "-" [] op = "Mult" -> "*"
    [] op = "Div" -> "/" [] op = "Mod" -> "%"

C10_AugAssignRange ==
  (/\ Done("build_stmt")
   /\ arg.kind = "AugAssign"
   /\ build_expr(UnitContext, arg.target).ok
   /\ build_expr(UnitContext, arg.value).ok)
  => IF arg.op \in {"Add", "Sub", "Mult", "Div", "Mod"}
     THEN result = Ok(AugAssign(build_expr(UnitContext, arg.target).val, AugToken(arg.op),
                                build_expr(UnitContext, arg.value).val))
     ELSE /\ ~result.ok
          /\ result.exc = "NotSupportedError"
          /\ result.source_range # NoRange
          /\ result.source_range.start <= OperatorEq(arg)
          /\ OperatorEq(arg) < result.source_range.end

(***************************************************************************)
(* C11: build_param_list raises NotSupported whenever the parameter list   *)
(* has a variadic positional parameter, a variadic keyword parameter or a  *)
(* keyword-only parameter with a default; the range covers the name of the *)
(* variadic parameter, or is the range of the default expression.  With    *)
(* none of the three, and annotations that translate, it returns the       *)
(* ordinary parameters in order and then the keyword-only ones in order,   *)
(* the keyword-only flag false for the former and true for the latter.     *)
(***************************************************************************)
CoversName(r, p) ==
  /\ r # NoRange
  /\ r.start <= OffsetOf(p)
  /\ OffsetOf(p) + Len(p.arg) <= r.end

HasDefault(a) == \E i \in 1..Len(a.kw_defaults) : ~IsNone(a.kw_defaults[i])

AllParams(a) == a.args \o a.kwonlyargs

AnnotationsTranslate(a) ==
  \A i \in 1..Len(AllParams(a)) :
    IsNone(AllParams(a)[i].annotation)
    \/ build_expr(UnitContext, AllParams(a)[i].annotation).ok

C11_ParamList ==
  Done("build_param_list") =>
    IF ~IsNone(arg.kwarg) \/ ~IsNone(arg.vararg)
    THEN /\ ~result.ok
         /\ result.exc \in NotSupportedError
         /\ \/ ~IsNone(arg.kwarg) /\ CoversName(result.source_range, arg.kwarg)
            \/ ~IsNone(arg.vararg) /\ CoversName(result.source_range, arg.vararg)
    ELSE IF HasDefault(arg)
    THEN /\ ~result.ok
         /\ result.exc \in NotSupportedError
         /\ \E i \in 1..Len(arg.kw_defaults) :
              /\ ~IsNone(arg.kw_defaults[i])
              /\ build_expr(UnitContext, arg.kw_defaults[i]).ok
                 => result.source_range
                    = build_expr(UnitContext, arg.kw_defaults[i]).val.range
    ELSE AnnotationsTranslate(arg)
         => /\ result.ok
            /\ Len(result.val) = Len(AllParams(arg))
            /\ \A i \in 1..Len(result.val) :
                 /\ result.val[i].kind = "Param"
                 /\ result.val[i].kids[2].value = AllParams(arg)[i].arg
                 /\ (result.val[i].op = "kwarg_only") = (i > Len(arg.args))

(***************************************************************************)
(* C12: build_Subscript on a plain index that is a tuple literal of N      *)
(* elements returns one Subscript whose index list holds the N translated  *)
(* elements in order; on a plain index of any other kind, a list literal   *)
(* included, it returns a Subscript with exactly one index.                *)
(***************************************************************************)
C12_TupleIndex ==
  (/\ Done("build_expr")
   /\ arg.kind = "Subscript"
   /\ arg.slice.kind = "Index"
   /\ build_expr(UnitContext, arg.value).ok)
  => IF arg.slice.value.kind = "Tuple"
     THEN AllOk(Translated(arg.slice.value.elts))
          => /\ result.ok
             /\ result.val.kind = "Subscript"
             /\ result.val.kids[1] = build_expr(UnitContext, arg.value).val
             /\ result.val.kids[2].kids = Vals(Translated(arg.slice.value.elts))
     ELSE build_expr(UnitContext, arg.slice.value).ok
          => /\ result.ok
             /\ result.val.kind = "Subscript"
             /\ result.val.kids[1] = build_expr(UnitContext, arg.value).val
             /\ result.val.kids[2].kids = <<build_expr(UnitContext, arg.slice.value).val>>

C12_Witness ==
  /\ Done("build_expr")
  /\ arg.kind = "Subscript"
  /\ arg.slice.kind = "Index"
  /\ arg.slice.value.kind = "Tuple"
  /\ Len(arg.slice.value.elts) = 2
  /\ result.ok
  /\ Len(result.val.kids[2].kids) = 2
  /\ result.val.kids[2].kids[1].kind = "Var"
  /\ result.val.kids[2].kids[2].kind = "Const"

(***************************************************************************)
(* C13: an UnsupportedNodeError is raised exactly when a dispatcher finds  *)
(* no handler: translating a node whose kind has no build_<Kind> method    *)
(* raises it, and when a translation raises it, some node the translation  *)
(* dispatched on (the node itself or one below it) has no handler; a       *)
(* handler that exists, build_AnnAssign included, does not raise it for    *)
(* the node it handles.                                                    *)
(***************************************************************************)
StmtsBelow(node) == SubStmts(node)

ExprsBelow(node) ==
  IF call = "build_stmt"
  THEN UNION {SubExprs(e) : e \in UNION {StmtExprs(s) : s \in StmtsBelow(node)}}
  ELSE SubExprs(node)

NoHandlerBelow(node) ==
  \/ call = "build_stmt" /\ \E s \in StmtsBelow(node) : s.kind \notin StmtBuilderMethods
  \/ \E e \in ExprsBelow(node) : e.kind \notin ExprBuilderMethods

IsUnsupportedNode(outcome) == ~outcome.ok /\ outcome.exc = "UnsupportedNodeError"

C13_UnsupportedExactly ==
  (Done("build_stmt") \/ Done("build_expr"))
  => /\ (arg.kind \notin (IF call = "build_stmt" THEN StmtBuilderMethods
                          ELSE ExprBuilderMethods))
        => IsUnsupportedNode(result)
     /\ IsUnsupportedNode(result) => NoHandlerBelow(arg)

(***************************************************************************)
(* C14: build_Expr translates an expression statement whose expression is  *)
(* a bare string literal to nothing and every other expression statement   *)
(* whose expression translates to one ExprStmt; build_stmts removes the    *)
(* string statements from the block, at any position, in a function body,  *)
(* a loop body, an if branch or a with body, and keeps the order of the    *)
(* remaining statements.                                                   *)
(***************************************************************************)
IsStringLiteral(e) ==
  \/ e.kind = "Str"
  \/ e.kind = "Constant" /\ e.value.t = "str"

IsDocString(s) == s.kind = "Expr" /\ IsStringLiteral(s.value)

Remaining(block) == SelectSeq(block, LAMBDA s : ~IsDocString(s))

(* the translation of a block is the translation of what remains of it *)
BlockDropsStrings(block, built) ==
  LET rest == Remaining(block)
      each == [i \in 1..Len(rest) |-> build_stmt(UnitContext, rest[i])]
  IN AllOk(each) => built = Vals(each)

C14_DocStringsDropped ==
  /\ (Done("build_stmt") /\ arg.kind = "Expr")
     => IF IsStringLiteral(arg.value) THEN result = Ok(NoneTree)
        ELSE build_expr(UnitContext, arg.value).ok
             => result = Ok(ExprStmt(build_expr(UnitContext, arg.value).val))
  /\ (Done("build_stmt") /\ result.ok /\ arg.kind \in {"While", "For", "With"})
     => BlockDropsStrings(arg.body, result.val.kids[Len(result.val.kids)].kids)
  /\ (Done("build_stmt") /\ result.ok /\ arg.kind = "If")
     => /\ BlockDropsStrings(arg.body, result.val.kids[2].kids)
        /\ BlockDropsStrings(arg.orelse, result.val.kids[3].kids)
  /\ (Done("get_jit_def") /\ result.ok /\ ~unit.should_drop)
     => BlockDropsStrings(unit.py_ast.body, result.val.kids[3].kids)

(***************************************************************************)
(* C15: build_withitem on a with-item whose expressions translate returns  *)
(* a WithItem whose range starts at the line and column of the context     *)
(* expression and is as long as the keyword "with" (4 characters), with    *)
(* or without a bound name.                                                *)
(***************************************************************************)
C15_WithItemRange ==
  (Done("build_withitem") /\ result.ok)
  => /\ result.val.kind = "WithItem"
     /\ result.val.range.start = OffsetOf(arg.context_expr)
     /\ result.val.range.end - result.val.range.start = Len("with")

(***************************************************************************)
(* C16: in the Apply that build_JoinedStr returns, the template has as     *)
(* many '{}' replacement fields as the call has positional arguments,      *)
(* also when a literal segment holds a brace ('{{' or '}}' in the source). *)
(***************************************************************************)
(* the '{}' fields of a format template as str.format reads it: '{{' and   *)
(* '}}' are literal braces, '{}' is a field, any other brace is malformed  *)
(* (-1)                                                                    *)
RECURSIVE FieldCount(_)
FieldCount(t) ==
  IF t = <<>> THEN 0
  ELSE IF Len(t) >= 2 /\ t[1] \in {"{", "}"} /\ t[2] = t[1]
  THEN FieldCount(SubSeq(t, 3, Len(t)))
  ELSE IF Len(t) >= 2 /\ t[1] = "{" /\ t[2] = "}"
  THEN LET rest == FieldCount(SubSeq(t, 3, Len(t)))
       IN IF rest = -1 THEN -1 ELSE rest + 1
  ELSE IF t[1] \in {"{", "}"} THEN -1
  ELSE FieldCount(Tail(t))

(* the template and the positional arguments of s.format(args) *)
TemplateOf(apply) == apply.kids[1].kids[1].value

ArgsOf(apply) == apply.kids[2].kids

C16_FieldsMatchArgs ==
  (Done("build_expr") /\ arg.kind = "JoinedStr" /\ result.ok)
  => FieldCount(TemplateOf(result.val)) = Len(ArgsOf(result.val))

====
